---- MODULE Spec2Model ----
(***************************************************************************)
(* The bytecode back-end of tslox (src/src/lox2): scanner, string pool and *)
(* hash table, single-pass compiler, and stack VM.                         *)
(*                                                                         *)
(* Conventions.  JavaScript arrays are 0-based, TLA+ sequences 1-based: a  *)
(* JS index i is position i + 1.  An object reference is its position in   *)
(* heap; 0 stands for null/undefined where a reference is expected.  A     *)
(* Value is a record [t, v] with an integer v, so any two Values compare.  *)
(***************************************************************************)
EXTENDS Integers, Sequences, FiniteSets, TLC

VARIABLES
  heap,          \* every Obj allocated so far, in allocation order
  pool,          \* Pool.strings, a Table
  globals,       \* VM.globals, a Table
  stack,         \* VM.stack
  frames,        \* VM.frames
  frame,         \* the local `frame` of VM.run
  openUpvalues,  \* VM.openUpvalues (0 = null)
  initString,    \* VM.initString
  status,        \* "idle" between interpret calls, "compiling" inside
                 \* compile, "running" inside VM.run; "scanning" where
                 \* the token stream of a source is followed by itself
  result,        \* what the last interpret call returned (or "THROWN")
  out,           \* console.log lines
  err,           \* console.error lines
  runs,          \* interpret calls made so far
  comp,          \* the Parser and the chain of Compilers while compile runs
  sc,            \* the Scanner and the Parser.advance loop around it
  tb             \* a Table by itself, and what the last call on it returned

vars == <<heap, pool, globals, stack, frames, frame, openUpvalues, initString,
          status, result, out, err, runs, comp, sc, tb>>

(***************************************************************************)
(* Values (chunk.ts: type Value = null | boolean | number | Obj, plus the  *)
(* JavaScript undefined that array reads past the end produce).            *)
(***************************************************************************)
Nil == [t |-> "nil", v |-> 0]
Undef == [t |-> "undef", v |-> 0]
Bool(b) == [t |-> "bool", v |-> IF b THEN 1 ELSE 0]
Num(n) == [t |-> "num", v |-> n]
Obj(r) == [t |-> "obj", v |-> r]

IsObj(x) == x.t = "obj"
IsNum(x) == x.t = "num"
KindOf(h, x) == IF IsObj(x) THEN h[x.v].k ELSE "none"

\* Array read: an index outside 0 .. length-1 reads undefined.
At(s, i) == IF i >= 0 /\ i < Len(s) THEN s[i + 1] ELSE Undef

\* Array write s[i] = x for i >= 0: a write past the end lengthens the array
\* and leaves holes, which read undefined.
Store(s, i, x) ==
  LET n == IF i + 1 > Len(s) THEN i + 1 ELSE Len(s)
  IN SubSeq([j \in 1..n |->
               IF j = i + 1 THEN x ELSE IF j <= Len(s) THEN s[j] ELSE Undef],
            1, n)

\* s.length = n
SetLength(s, n) ==
  SubSeq([j \in 1..n |-> IF j <= Len(s) THEN s[j] ELSE Undef], 1, n)

\* const name = value: the value is computed once, where it is declared,
\* however often the code In that follows reads it.
Let(value, In(_)) == In(value)

\* s.pop(): the shortened array (an empty array stays empty)
Pop(s) == IF Len(s) = 0 THEN s ELSE SubSeq(s, 1, Len(s) - 1)
Top(s) == At(s, Len(s) - 1)

(***************************************************************************)
(* hashString.  The source computes FNV-1a in double precision (the        *)
(* product hash * 16777619 is rounded to 53 bits) and converts to int32.   *)
(* TLC's integers are 32 bits wide, so the function is tabulated here for   *)
(* the strings the model uses, each value computed by that arithmetic.     *)
(***************************************************************************)
HashTable ==
  "clock" :> 666893752
  @@ "init" :> 363975136
  @@ "a" :> -468965076
  @@ "b" :> -418632220
  @@ "c" :> -435409840
  @@ "d" :> -519297932
  @@ "f" :> -485742696
  @@ "g" :> -502520312
  @@ "h" :> -317966504
  @@ "i" :> -334744124
  @@ "k" :> -301188888
  @@ "m" :> -401854600
  @@ "n" :> -351521744
  @@ "r" :> -150190316
  @@ "w" :> -234078408
  @@ "A" :> -1005848884
  @@ "B" :> -955516028
  @@ "C" :> -972293648
  @@ "t" :> -250856028
  @@ "ab" :> 1294271946
  @@ "abc" :> 440920332
  @@ "aa" :> 1277494327
  @@ "by" :> 1428934183
  @@ "v256" :> 1443973728
  @@ "outer" :> -134000042
  @@ "mk" :> 1580079849
  @@ "mid" :> -1014023196
  @@ "inc" :> -1461085112

hashString(key) == HashTable[key]

(***************************************************************************)
(* Table (open addressing, linear probing, tombstones).                    *)
(* keys[i] = 0 is an undefined key; values[i] = Undef an undefined value.  *)
(***************************************************************************)
EmptyTable == [count |-> 0, capacity |-> 0, keys |-> <<>>, values |-> <<>>]

\* hash & mask for mask = capacity - 1, capacity a power of two
BitAnd(hash, mask) == hash % (mask + 1)

NoSlot == -1

\* The probe loop of Table.#find from slot index on; tombstone is the last
\* tombstone passed (NoSlot = none yet).
RECURSIVE findFrom(_, _, _, _, _, _, _)
findFrom(h, keys, values, mask, key, index, tombstone) ==
  LET key2 == keys[index + 1]
      value == values[index + 1]
      next == (index + 1) % (mask + 1)
  IN IF key2 = 0
     THEN IF value = Undef
          THEN (IF tombstone = NoSlot THEN index ELSE tombstone)
          ELSE findFrom(h, keys, values, mask, key, next, index)
     ELSE IF key = key2 THEN index
     ELSE findFrom(h, keys, values, mask, key, next, tombstone)

\* Not the source: a probe that returns the first tombstone it met.
RECURSIVE findFirstFrom(_, _, _, _, _, _, _)
findFirstFrom(h, keys, values, mask, key, index, tombstone) ==
  LET key2 == keys[index + 1]
      value == values[index + 1]
      next == (index + 1) % (mask + 1)
  IN IF key2 = 0
     THEN IF value = Undef
          THEN (IF tombstone = NoSlot THEN index ELSE tombstone)
          ELSE findFirstFrom(h, keys, values, mask, key, next,
                             IF tombstone = NoSlot THEN index ELSE tombstone)
     ELSE IF key = key2 THEN index
     ELSE findFirstFrom(h, keys, values, mask, key, next, tombstone)

findFirst(h, keys, values, mask, key) ==
  IF \A i \in 1..(mask + 1) : (keys[i] # 0 \/ values[i] # Undef) /\ keys[i] # key
  THEN NoSlot
  ELSE findFirstFrom(h, keys, values, mask, key, BitAnd(h[key].hash, mask), NoSlot)

\* Not the source: the slot that the hash names, whatever it holds.
findHome(h, keys, values, mask, key) == BitAnd(h[key].hash, mask)

\* Table.#find.  The source's loop has no exit when the key is absent and
\* every slot holds a key or a value: NoSlot stands for that endless probe.
find(h, keys, values, mask, key) ==
  IF \A i \in 1..(mask + 1) : (keys[i] # 0 \/ values[i] # Undef) /\ keys[i] # key
  THEN NoSlot
  ELSE findFrom(h, keys, values, mask, key, BitAnd(h[key].hash, mask), NoSlot)

\* The loop of Table.#grow over the old slots lo .. hi-1, in that order; g is
\* the table of the new arrays with count the entries re-inserted so far.
\* The slots below the middle are done before those from the middle on.
RECURSIVE growFrom(_, _, _, _, _)
growFrom(h, t, g, lo, hi) ==
  IF hi - lo > 1
  THEN Let((lo + hi) \div 2, LAMBDA mid :
         Let(growFrom(h, t, g, lo, mid), LAMBDA g1 :
           IF g1.count >= 0 THEN growFrom(h, t, g1, mid, hi) ELSE g1))
  ELSE IF hi - lo < 1 \/ t.keys[lo + 1] = 0 THEN g
  ELSE Let(find(h, g.keys, g.values, g.capacity - 1, t.keys[lo + 1]),
           LAMBDA index :
             [g EXCEPT !.keys[index + 1] = t.keys[lo + 1],
                       !.values[index + 1] = t.values[lo + 1],
                       !.count = @ + 1])

\* Not the source: a grow that never makes a table of 8 slots or more larger.
growSame(h, t, capacity) ==
  Let(IF t.capacity < 8 THEN capacity ELSE t.capacity, LAMBDA same :
    growFrom(h, t,
             [count |-> 0, capacity |-> same,
              keys |-> SubSeq([i \in 1..same |-> 0], 1, same),
              values |-> SubSeq([i \in 1..same |-> Undef], 1, same)],
             0, t.capacity))

\* Not the source: the old arrays copied slot for slot into the new ones.
growCopy(h, t, capacity) ==
  [count |-> t.count, capacity |-> capacity,
   keys |-> SubSeq([i \in 1..capacity |->
                      IF i <= t.capacity THEN t.keys[i] ELSE 0], 1, capacity),
   values |-> SubSeq([i \in 1..capacity |->
                        IF i <= t.capacity THEN t.values[i] ELSE Undef],
                     1, capacity)]

\* Table.#grow: new arrays of the given capacity, every entry re-inserted
grow(h, t, capacity) ==
  growFrom(h, t,
           [count |-> 0, capacity |-> capacity,
            keys |-> SubSeq([i \in 1..capacity |-> 0], 1, capacity),
            values |-> SubSeq([i \in 1..capacity |-> Undef], 1, capacity)],
           0, t.capacity)

\* Table.findString: the key (a reference) or 0 for undefined.
RECURSIVE findStringFrom(_, _, _, _, _, _)
findStringFrom(h, t, chars, hash, index, i) ==
  IF i >= t.capacity THEN NoSlot   \* throw new Error("wtf!?")
  ELSE LET key == t.keys[index + 1]
           next == (index + 1) % t.capacity
       IN IF key = 0
          THEN IF t.values[index + 1] = Undef THEN 0
               ELSE findStringFrom(h, t, chars, hash, next, i + 1)
          ELSE IF h[key].hash = hash /\ h[key].chars = chars THEN key
          ELSE findStringFrom(h, t, chars, hash, next, i + 1)

findString(h, t, chars, hash) ==
  IF t.count = 0 THEN 0
  ELSE findStringFrom(h, t, chars, hash, BitAnd(hash, t.capacity - 1), 0)

\* Table.get: the value, Undef when the key is absent.
get(h, t, key) ==
  IF t.count = 0 THEN Undef
  ELSE LET index == find(h, t.keys, t.values, t.capacity - 1, key)
       IN IF t.keys[index + 1] = 0 THEN Undef ELSE t.values[index + 1]

MAX_LOAD_NUM == 3
MAX_LOAD_DEN == 4

\* Table.set: the table afterwards and the boolean it returns.
set(h, t, key, value) ==
  Let(IF (t.count + 1) * MAX_LOAD_DEN > t.capacity * MAX_LOAD_NUM
      THEN grow(h, t, IF t.capacity < 8 THEN 8 ELSE t.capacity * 2)
      ELSE t,
      LAMBDA g :
        Let(find(h, g.keys, g.values, g.capacity - 1, key), LAMBDA index :
          LET isNewKey == g.keys[index + 1] = 0
              counted == isNewKey /\ g.values[index + 1] = Undef
          IN [table |-> [count |-> IF counted THEN g.count + 1 ELSE g.count,
                         capacity |-> g.capacity,
                         keys |-> IF isNewKey
                                  THEN [g.keys EXCEPT ![index + 1] = key]
                                  ELSE g.keys,
                         values |-> [g.values EXCEPT ![index + 1] = value]],
              isNewKey |-> isNewKey]))

\* Not the source: a delete that clears the value with the key.
deleteSlot(h, t, key) ==
  IF t.count = 0 THEN [table |-> t, deleted |-> FALSE]
  ELSE LET index == find(h, t.keys, t.values, t.capacity - 1, key)
       IN IF t.keys[index + 1] = 0 THEN [table |-> t, deleted |-> FALSE]
          ELSE [table |-> [t EXCEPT !.keys[index + 1] = 0,
                                    !.values[index + 1] = Undef],
                deleted |-> TRUE]

\* Table.delete: the table afterwards and the boolean it returns.
delete(h, t, key) ==
  IF t.count = 0 THEN [table |-> t, deleted |-> FALSE]
  ELSE LET index == find(h, t.keys, t.values, t.capacity - 1, key)
       IN IF t.keys[index + 1] = 0 THEN [table |-> t, deleted |-> FALSE]
          ELSE [table |-> [t EXCEPT !.keys[index + 1] = 0], deleted |-> TRUE]

\* Table.addAll: set every entry of other, in slot order from slot i on.
RECURSIVE addAllFrom(_, _, _, _)
addAllFrom(h, t, other, i) ==
  IF i >= other.capacity THEN t
  ELSE IF other.keys[i + 1] = 0 THEN addAllFrom(h, t, other, i + 1)
  ELSE addAllFrom(h, set(h, t, other.keys[i + 1], other.values[i + 1]).table,
                  other, i + 1)

\* Not the source: an addAll that copies nothing.
addNone(h, t, other) == t

addAll(h, t, other) == addAllFrom(h, t, other, 0)

\* Not the source: a pool that makes a new string at every call.
internFresh(h, p, name) ==
  [heap |-> Append(h, [k |-> "string", chars |-> name, hash |-> hashString(name)]),
   pool |-> p,
   key |-> Len(h) + 1]

(***************************************************************************)
(* Pool.intern: the heap and pool afterwards and the string returned.      *)
(***************************************************************************)
LoxString(chars, hash) == [k |-> "string", chars |-> chars, hash |-> hash]

intern(h, p, name) ==
  Let(findString(h, p, name, hashString(name)), LAMBDA found :
    IF found # 0 THEN [heap |-> h, pool |-> p, key |-> found]
    ELSE LET h2 == Append(h, LoxString(name, hashString(name)))
             key == Len(h2)
         IN [heap |-> h2, pool |-> set(h2, p, key, Nil).table, key |-> key])

(***************************************************************************)
(* Heap objects (chunk.ts).                                                *)
(***************************************************************************)
LoxFunction(arity, upvalueCount, name, code, constants) ==
  [k |-> "function", arity |-> arity, upvalueCount |-> upvalueCount,
   name |-> name, code |-> code, constants |-> constants]
Native == [k |-> "native"]
Upvalue(index) == [k |-> "upvalue", index |-> index, closed |-> Nil, next |-> 0]
Closure(func) == [k |-> "closure", func |-> func, upvalues |-> <<>>]
LoxClass(name) == [k |-> "class", name |-> name, methods |-> EmptyTable]
Instance(klass) == [k |-> "instance", klass |-> klass, fields |-> EmptyTable]
BoundMethod(receiver, method) ==
  [k |-> "bound", receiver |-> receiver, method |-> method]

\* enum OpCode, in declaration order (the first is 0)
OpNames ==
  <<"CONSTANT", "NIL", "TRUE", "FALSE", "POP", "GET_LOCAL", "GET_GLOBAL",
    "DEFINE_GLOBAL", "SET_LOCAL", "SET_GLOBAL", "GET_UPVALUE", "SET_UPVALUE",
    "GET_PROPERTY", "SET_PROPERTY", "GET_SUPER", "EQUAL", "GREATER", "LESS",
    "ADD", "SUBTRACT", "MULTIPLY", "DIVIDE", "NOT", "NEGATE", "PRINT", "JUMP",
    "JUMP_IF_FALSE", "LOOP", "CALL", "INVOKE", "SUPER_INVOKE", "CLOSURE",
    "CLOSE_UPVALUE", "RETURN", "CLASS", "INHERIT", "METHOD">>

OpCode ==
  [name \in {OpNames[i] : i \in 1..Len(OpNames)} |->
     (CHOOSE i \in 1..Len(OpNames) : OpNames[i] = name) - 1]

(***************************************************************************)
(* The VM (vm.ts).  A machine m is the record of the VM's fields, the      *)
(* pool, the heap and the console; each method is an operator from         *)
(* machines to machines (with the method's return value where it has one). *)
(***************************************************************************)
M ==
  [heap |-> heap, pool |-> pool, globals |-> globals, stack |-> stack,
   frames |-> frames, frame |-> frame, openUpvalues |-> openUpvalues,
   initString |-> initString, out |-> out, err |-> err]

\* frames[frames.length - 1] of an empty array is undefined
NoFrame == [closure |-> 0, ip |-> 0, offset |-> 0]
CallFrame(closure, ip, offset) ==
  [closure |-> closure, ip |-> ip, offset |-> offset]
LastFrame(fs) == IF Len(fs) = 0 THEN NoFrame ELSE fs[Len(fs)]

Push(m, x) == [m EXCEPT !.stack = Append(@, x)]
Drop(m) == [m EXCEPT !.stack = Pop(@)]
Alloc(m, o) == [m EXCEPT !.heap = Append(@, o)]

FuncOf(m, closure) == m.heap[m.heap[closure].func]
FuncName(m, closure) ==
  IF FuncOf(m, closure).name = 0 THEN "script"
  ELSE m.heap[FuncOf(m, closure).name].chars \o "()"

resetStack(m) ==
  [m EXCEPT !.stack = <<>>, !.frames = <<>>, !.openUpvalues = 0]

\* The trace lines of runtimeError, innermost frame first (the line numbers
\* are left out): the k-th line is for frames[frames.length - k].
trace(m) ==
  SubSeq([k \in 1..Len(m.frames) |->
            "in " \o FuncName(m, m.frames[Len(m.frames) + 1 - k].closure)],
         1, Len(m.frames))

runtimeError(m, message) ==
  resetStack([m EXCEPT !.err = @ \o <<message>> \o trace(m)])

peek(m, distance) == At(m.stack, Len(m.stack) - 1 - distance)
put(m, distance, value) ==
  [m EXCEPT !.stack = Store(@, Len(@) - 1 - distance, value)]

FRAMES_MAX == 64

\* JavaScript truthiness, as in `if (value)` and `if (!method)`
Truthy(x) == x.t = "obj" \/ (x.t = "bool" /\ x.v = 1) \/ (x.t = "num" /\ x.v # 0)

\* Not the source: a call that does not look at the number of frames.
callUnchecked(m, closure, argCount) ==
  [m |-> [m EXCEPT !.frames =
            Append(@, CallFrame(closure, 0, Len(m.stack) - argCount - 1))],
   ok |-> TRUE]

\* Not the source: a call that does not compare argCount with the arity.
callAnyArity(m, closure, argCount) ==
  IF Len(m.frames) = FRAMES_MAX
  THEN [m |-> runtimeError(m, "Stack overflow."), ok |-> FALSE]
  ELSE [m |-> [m EXCEPT !.frames =
                 Append(@, CallFrame(closure, 0, Len(m.stack) - argCount - 1))],
        ok |-> TRUE]

\* VM.call: the machine afterwards and the boolean returned.
call(m, closure, argCount) ==
  IF argCount # FuncOf(m, closure).arity
  THEN [m |-> runtimeError(m, "Expected " \o ToString(FuncOf(m, closure).arity)
                               \o " arguments but got " \o ToString(argCount)
                               \o "."),
        ok |-> FALSE]
  ELSE IF Len(m.frames) = FRAMES_MAX
  THEN [m |-> runtimeError(m, "Stack overflow."), ok |-> FALSE]
  ELSE [m |-> [m EXCEPT !.frames =
                 Append(@, CallFrame(closure, 0, Len(m.stack) - argCount - 1))],
        ok |-> TRUE]

\* VM.callValue; now is what the host clock returns if the callee is native.
callValue(m, callee, argCount, now) ==
  LET kind == KindOf(m.heap, callee)
  IN CASE kind = "bound" ->
            call(put(m, argCount, m.heap[callee.v].receiver),
                 m.heap[callee.v].method, argCount)
       [] kind = "class" ->
            LET m1 == Alloc(m, Instance(callee.v))
                m2 == put(m1, argCount, Obj(Len(m1.heap)))
                initializer == get(m2.heap, m2.heap[callee.v].methods,
                                   m2.initString)
            IN IF Truthy(initializer) THEN call(m2, initializer.v, argCount)
               ELSE IF argCount # 0
               THEN [m |-> runtimeError(m2, "Expected 0 arguments but got "
                                             \o ToString(argCount) \o "."),
                     ok |-> FALSE]
               ELSE [m |-> m2, ok |-> TRUE]
       [] kind = "closure" -> call(m, callee.v, argCount)
       [] kind = "native" ->
            [m |-> [m EXCEPT !.stack =
                      Append(SetLength(@, Len(@) - argCount), Num(now))],
             ok |-> TRUE]
       [] OTHER ->
            [m |-> runtimeError(m, "Can only call functions and classes."),
             ok |-> FALSE]

invokeFromClass(m, klass, name, argCount) ==
  LET method == get(m.heap, m.heap[klass].methods, name)
  IN IF ~Truthy(method)
     THEN [m |-> runtimeError(m, "Undefined property '" \o m.heap[name].chars
                                  \o "'."),
           ok |-> FALSE]
     ELSE call(m, method.v, argCount)

\* Not the source: an invoke that does not look at the fields.
invokeMethod(m, name, argCount, now) ==
  LET receiver == peek(m, argCount)
  IN IF KindOf(m.heap, receiver) # "instance"
     THEN [m |-> runtimeError(m, "Only instances have methods."), ok |-> FALSE]
     ELSE invokeFromClass(m, m.heap[receiver.v].klass, name, argCount)

invoke(m, name, argCount, now) ==
  LET receiver == peek(m, argCount)
  IN IF KindOf(m.heap, receiver) # "instance"
     THEN [m |-> runtimeError(m, "Only instances have methods."), ok |-> FALSE]
     ELSE LET value == get(m.heap, m.heap[receiver.v].fields, name)
          IN IF Truthy(value)
             THEN callValue(put(m, argCount, value), value, argCount, now)
             ELSE invokeFromClass(m, m.heap[receiver.v].klass, name, argCount)

bindMethod(m, klass, name) ==
  LET method == get(m.heap, m.heap[klass].methods, name)
  IN IF ~Truthy(method)
     THEN [m |-> runtimeError(m, "Undefined property '" \o m.heap[name].chars
                                  \o "'."),
           ok |-> FALSE]
     ELSE LET m1 == Alloc(Drop(m), BoundMethod(Top(m.stack), method.v))
          IN [m |-> Push(m1, Obj(Len(m1.heap))), ok |-> TRUE]

\* The search loop of captureUpvalue: the last upvalue passed (prevUpvalue)
\* and the one the loop stops at.
RECURSIVE captureWalk(_, _, _, _)
captureWalk(h, prevUpvalue, upvalue, index) ==
  IF upvalue # 0 /\ h[upvalue].index > index
  THEN captureWalk(h, upvalue, h[upvalue].next, index)
  ELSE [prevUpvalue |-> prevUpvalue, upvalue |-> upvalue]

\* Not the source: a capture that puts a new upvalue at the head of the list.
captureFresh(m, index) ==
  [m |-> [m EXCEPT !.heap = Append(@, [Upvalue(index) EXCEPT !.next = m.openUpvalues]),
                   !.openUpvalues = Len(m.heap) + 1],
   upvalue |-> Len(m.heap) + 1]

\* VM.captureUpvalue: the machine afterwards and the upvalue returned.
captureUpvalue(m, index) ==
  LET w == captureWalk(m.heap, 0, m.openUpvalues, index)
  IN IF w.upvalue # 0 /\ m.heap[w.upvalue].index = index
     THEN [m |-> m, upvalue |-> w.upvalue]
     ELSE LET h1 == Append(m.heap, [Upvalue(index) EXCEPT !.next = w.upvalue])
              created == Len(h1)
          IN [m |-> IF w.prevUpvalue = 0
                    THEN [m EXCEPT !.heap = h1, !.openUpvalues = created]
                    ELSE [m EXCEPT !.heap =
                            [h1 EXCEPT ![w.prevUpvalue].next = created]],
              upvalue |-> created]

\* Not the source: a close that closes nothing.
closeNone(m, last) == m

\* Not the source: a close that does not copy the value of the slot.
RECURSIVE closeUnset(_, _)
closeUnset(m, last) ==
  IF m.openUpvalues # 0 /\ m.heap[m.openUpvalues].index >= last
  THEN LET upvalue == m.openUpvalues
       IN closeUnset(
            [m EXCEPT !.heap[upvalue].index = -1,
                      !.openUpvalues = m.heap[upvalue].next],
            last)
  ELSE m

\* Not the source: a close that copies the value of the slot `last`.
RECURSIVE closeLast(_, _)
closeLast(m, last) ==
  IF m.openUpvalues # 0 /\ m.heap[m.openUpvalues].index >= last
  THEN LET upvalue == m.openUpvalues
       IN closeLast(
            [m EXCEPT !.heap[upvalue].closed = At(m.stack, last),
                      !.heap[upvalue].index = -1,
                      !.openUpvalues = m.heap[upvalue].next],
            last)
  ELSE m

RECURSIVE closeUpvalues(_, _)
closeUpvalues(m, last) ==
  IF m.openUpvalues # 0 /\ m.heap[m.openUpvalues].index >= last
  THEN LET upvalue == m.openUpvalues
       IN closeUpvalues(
            [m EXCEPT !.heap[upvalue].closed = At(m.stack, m.heap[upvalue].index),
                      !.heap[upvalue].index = -1,
                      !.openUpvalues = m.heap[upvalue].next],
            last)
  ELSE m

defineMethod(m, name) ==
  LET method == peek(m, 0)
      klass == peek(m, 1)
  IN Drop([m EXCEPT !.heap[klass.v].methods =
             set(m.heap, @, name, method).table])

isFalsey(value) == value = Nil \/ value = Bool(FALSE)

concatenate(m) ==
  LET b == peek(m, 0)
      a == peek(m, 1)
      r == intern(m.heap, m.pool, m.heap[a.v].chars \o m.heap[b.v].chars)
  IN Push([Drop(Drop(m)) EXCEPT !.heap = r.heap, !.pool = r.pool], Obj(r.key))

\* The arithmetic and comparison operators handed to binaryOp, on the
\* integers (a quotient is modelled where it is exact).
Apply(op, a, b) ==
  CASE op = "GREATER" -> Bool(a > b)
    [] op = "LESS" -> Bool(a < b)
    [] op = "SUBTRACT" -> Num(a - b)
    [] op = "MULTIPLY" -> Num(a * b)
    [] op = "DIVIDE" /\ b # 0 /\ a % b = 0 -> Num(a \div b)

\* VM.binaryOp: the machine afterwards and what the method returns
\* ("RUNTIME_ERROR" or "undefined").
binaryOp(m, op) ==
  LET b == peek(m, 0)
      a == peek(m, 1)
      m1 == Drop(Drop(m))
  IN IF ~IsNum(b) \/ ~IsNum(a)
     THEN [m |-> runtimeError(m1, "Operands must be numbers."),
           returned |-> "RUNTIME_ERROR"]
     ELSE [m |-> Push(m1, Apply(op, a.v, b.v)), returned |-> "undefined"]

valueType(x) ==
  CASE x.t = "obj" -> "object"
    [] x.t = "nil" -> "nil"
    [] x.t = "bool" -> "boolean"
    [] x.t = "num" -> "number"
    [] OTHER -> "undefined"

\* printValue: the line written to the console
RECURSIVE printed(_, _)
printed(h, x) ==
  CASE x.t = "nil" -> "nil"
    [] x.t = "bool" -> (IF x.v = 1 THEN "true" ELSE "false")
    [] x.t = "num" -> ToString(x.v)
    [] x.t = "undef" -> "undefined"
    [] x.t = "obj" ->
         LET o == h[x.v]
         IN CASE o.k = "function" ->
                   (IF o.name = 0 THEN "<script>"
                    ELSE "<fn " \o h[o.name].chars \o ">")
              [] o.k = "native" -> "<native fn>"
              [] o.k = "string" -> o.chars
              [] o.k = "upvalue" -> "upvalue"
              [] o.k = "closure" -> printed(h, Obj(o.func))
              [] o.k = "class" -> h[o.name].chars
              [] o.k = "instance" -> h[h[o.klass].name].chars \o " instance"
              [] o.k = "bound" -> printed(h, Obj(o.method))

printValue(m, x) == [m EXCEPT !.out = Append(@, printed(m.heap, x))]

(***************************************************************************)
(* The compiler (compiler.ts).  Its input here is a parsed program, not    *)
(* the text: the scanner is modelled apart, and the order in which the     *)
(* single pass emits code and adds constants is kept.  A compilation cs    *)
(* holds the stack of Compiler objects (comps, each the `enclosing` of the *)
(* next), the Parser's flags, the class-nesting stack, the heap and pool,  *)
(* and todo: what the parser has still to read, the next item first.  An   *)
(* item is a declaration or statement not yet begun, or the rest of a      *)
(* function of the compiler that waits for a body to be compiled.          *)
(***************************************************************************)
ENum(n) == [e |-> "number", n |-> n]
EStr(chars) == [e |-> "string", chars |-> chars]
ELit(v) == [e |-> "literal", v |-> v]
EVar(name) == [e |-> "variable", name |-> name]
EAssign(name, value) == [e |-> "assign", name |-> name, value |-> value]
EBin(op, left, right) == [e |-> "binary", op |-> op, left |-> left, right |-> right]
EUnary(op, operand) == [e |-> "unary", op |-> op, operand |-> operand]
EAnd(left, right) == [e |-> "and", left |-> left, right |-> right]
EOr(left, right) == [e |-> "or", left |-> left, right |-> right]
ECall(callee, args) == [e |-> "call", callee |-> callee, args |-> args]
EGet(object, name) == [e |-> "get", object |-> object, name |-> name]
ESet(object, name, value) ==
  [e |-> "set", object |-> object, name |-> name, value |-> value]
EInvoke(object, name, args) ==
  [e |-> "invoke", object |-> object, name |-> name, args |-> args]
EThis == [e |-> "this"]
ESuper(name) == [e |-> "super", name |-> name]
ESuperInvoke(name, args) == [e |-> "superInvoke", name |-> name, args |-> args]

SExpr(x) == [s |-> "expression", x |-> x]
\* a character that begins no token: the scanner returns an ERROR token
SError(lexeme) == [s |-> "error", lexeme |-> lexeme]
SPrint(x) == [s |-> "print", x |-> x]
SVar(name, x) == [s |-> "var", name |-> name, hasInit |-> TRUE, x |-> x]
SVarNil(name) == [s |-> "var", name |-> name, hasInit |-> FALSE]
SBlock(body) == [s |-> "block", body |-> body]
SIf(cond, then) == [s |-> "if", cond |-> cond, then |-> then, hasElse |-> FALSE]
SIfElse(cond, then, else) ==
  [s |-> "if", cond |-> cond, then |-> then, hasElse |-> TRUE, else |-> else]
SWhile(cond, body) == [s |-> "while", cond |-> cond, body |-> body]
\* a clause of for that is left out
SNone == [s |-> "none"]
ENone == [e |-> "none"]
SFor(init, cond, incr, body) ==
  [s |-> "for", init |-> init, cond |-> cond, incr |-> incr, body |-> body]
SReturn(x) == [s |-> "return", hasValue |-> TRUE, x |-> x]
SReturnNil == [s |-> "return", hasValue |-> FALSE]
SFun(name, params, body) ==
  [s |-> "fun", name |-> name, params |-> params, body |-> body]
SClass(name, methods) ==
  [s |-> "class", name |-> name, hasSuper |-> FALSE, methods |-> methods]
SSubclass(name, super, methods) ==
  [s |-> "class", name |-> name, hasSuper |-> TRUE, super |-> super,
   methods |-> methods]

Local(name, depth) == [name |-> name, depth |-> depth, isCaptured |-> FALSE]

Cur(cs) == cs.comps[Len(cs.comps)]

\* The source finishes one call before it starts the next: Then(cs, In) is
\* the code In on the compilation cs that the call before it has produced.
Ready(cs) == cs.panicMode \in BOOLEAN
Then(cs, In(_)) == IF Ready(cs) THEN In(cs) ELSE cs

\* Parser.errorAt (the position in the log line is left out)
error(cs, message) ==
  IF cs.panicMode THEN cs
  ELSE [cs EXCEPT !.panicMode = TRUE, !.hadError = TRUE,
                  !.err = Append(@, "Error: " \o message)]

\* new Compiler(enclosing, type, ...), named after parser.previous.lexeme
Compiler(cs, type, lexeme) ==
  Let(Append(cs.heap, LoxFunction(0, 0, 0, <<>>, <<>>)), LAMBDA h1 :
    Let(IF type # "SCRIPT" THEN intern(h1, cs.pool, lexeme)
        ELSE [heap |-> h1, pool |-> cs.pool, key |-> 0],
        LAMBDA r :
          [cs EXCEPT !.heap = r.heap, !.pool = r.pool,
                     !.comps = Append(@,
                       [funcRef |-> Len(h1),
                        func |-> LoxFunction(0, 0, r.key, <<>>, <<>>),
                        type |-> type, scopeDepth |-> 0, upvalues |-> <<>>,
                        locals |-> <<Local(IF type # "FUNCTION" THEN "this"
                                           ELSE "", 0)>>])]))

emitByte(cs, byte) ==
  [cs EXCEPT !.comps[Len(cs.comps)].func.code = Append(@, byte)]
emitBytes(cs, b0, b1) == emitByte(emitByte(cs, b0), b1)
Count(cs) == Len(Cur(cs).func.code)

emitLoop(cs, loopStart) ==
  Let(emitByte(cs, OpCode.LOOP), LAMBDA cs1 :
    Let(Count(cs1) - loopStart + 2, LAMBDA offset :
      emitByte(emitByte(IF offset > 65535 THEN error(cs1, "Loop body too large.")
                        ELSE cs1,
                        (offset \div 256) % 256),
               offset % 256)))

emitJump(cs, instruction) ==
  Let(emitByte(emitByte(emitByte(cs, instruction), 255), 255), LAMBDA cs1 :
    [cs |-> cs1, v |-> Count(cs1) - 2])

\* Not the source: the value to return is pushed and no RETURN follows.
emitReturnValue(cs) ==
  IF Cur(cs).type = "INITIALIZER" THEN emitBytes(cs, OpCode.GET_LOCAL, 0)
  ELSE emitByte(cs, OpCode.NIL)

\* Not the source: nil is returned from an initializer too.
emitReturnNil(cs) == emitByte(emitByte(cs, OpCode.NIL), OpCode.RETURN)

emitReturn(cs) ==
  emitByte(IF Cur(cs).type = "INITIALIZER" THEN emitBytes(cs, OpCode.GET_LOCAL, 0)
           ELSE emitByte(cs, OpCode.NIL),
           OpCode.RETURN)

\* Not the source: the constant is added and its index returned unchecked.
makeConstantUnchecked(cs, value) ==
  [cs |-> [cs EXCEPT !.comps[Len(cs.comps)].func.constants = Append(@, value)],
   v |-> Len(Cur(cs).func.constants)]

makeConstant(cs, value) ==
  Let([cs EXCEPT !.comps[Len(cs.comps)].func.constants = Append(@, value)],
      LAMBDA cs1 :
        Let(Len(Cur(cs1).func.constants) - 1, LAMBDA constant :
          IF constant > 255
          THEN [cs |-> error(cs1, "Too many constants in one chunk."), v |-> 0]
          ELSE [cs |-> cs1, v |-> constant]))

emitConstant(cs, value) ==
  Let(makeConstant(cs, value), LAMBDA r : emitBytes(r.cs, OpCode.CONSTANT, r.v))

\* Not the source: a patch that does not allow for the two operand bytes.
patchJumpUnadjusted(cs, offset) ==
  Let(Count(cs) - offset, LAMBDA jump :
    [cs EXCEPT !.comps[Len(cs.comps)].func.code =
       [@ EXCEPT ![offset + 1] = (jump \div 256) % 256,
                 ![offset + 2] = jump % 256]])

patchJump(cs, offset) ==
  Let(Count(cs) - offset - 2, LAMBDA jump :
    [(IF jump > 65535 THEN error(cs, "Too much code to jump over.") ELSE cs)
       EXCEPT !.comps[Len(cs.comps)].func.code =
         [@ EXCEPT ![offset + 1] = (jump \div 256) % 256,
                   ![offset + 2] = jump % 256]])

\* Compiler.end: the finished function is stored and the compiler left.
end(cs) ==
  Let(emitReturn(cs), LAMBDA cs1 :
    [cs1 EXCEPT !.heap[Cur(cs1).funcRef] = Cur(cs1).func,
                !.comps = SubSeq(@, 1, Len(@) - 1)])

beginScope(cs) == [cs EXCEPT !.comps[Len(cs.comps)].scopeDepth = @ + 1]

Max(S) == CHOOSE x \in S : \A y \in S : x >= y

\* The loop of endScope.  It pops the locals after the last one whose depth
\* is not above scopeDepth, from the end on, and emits CLOSE_UPVALUE or POP
\* for each as it goes: kept is what stays, n the number popped.
endScopeLoop(cs) ==
  LET locals == Cur(cs).locals
      kept == Max({0} \cup {j \in 1..Len(locals) :
                              locals[j].depth <= Cur(cs).scopeDepth})
      n == Len(locals) - kept
  IN [cs EXCEPT
        !.comps[Len(cs.comps)].func.code =
           @ \o SubSeq([i \in 1..n |->
                          IF locals[Len(locals) + 1 - i].isCaptured
                          THEN OpCode.CLOSE_UPVALUE ELSE OpCode.POP], 1, n),
        !.comps[Len(cs.comps)].locals = SubSeq(@, 1, kept)]

endScope(cs) ==
  endScopeLoop([cs EXCEPT !.comps[Len(cs.comps)].scopeDepth = @ - 1])

identifierConstant(cs, name) ==
  Let(intern(cs.heap, cs.pool, name), LAMBDA r :
    makeConstant([cs EXCEPT !.heap = r.heap, !.pool = r.pool], Obj(r.key)))

\* The search of resolveLocal from local i down: the slot or -1.
resolveLocalFrom(locals, name, i) ==
  Max({-1} \cup {j \in 0..i : name = locals[j + 1].name})

\* Not the source: a resolveLocal that does not look at the depth.
resolveLocalAny(cs, level, name) ==
  [cs |-> cs,
   v |-> resolveLocalFrom(cs.comps[level].locals, name,
                          Len(cs.comps[level].locals) - 1)]

\* resolveLocal of the compiler at level (1 = the script's compiler)
resolveLocal(cs, level, name) ==
  Let(resolveLocalFrom(cs.comps[level].locals, name,
                       Len(cs.comps[level].locals) - 1),
      LAMBDA i :
        IF i # -1 /\ cs.comps[level].locals[i + 1].depth = -1
        THEN [cs |-> error(cs, "Can't read local variable in its own initializer."),
              v |-> i]
        ELSE [cs |-> cs, v |-> i])

UpvalueAt(upvalues, upvalueCount, index, isLocal) ==
  {i \in 0..(upvalueCount - 1) :
     upvalues[i + 1].index = index /\ upvalues[i + 1].isLocal = isLocal}

Min(S) == CHOOSE x \in S : \A y \in S : x <= y

\* addUpvalue of the compiler at level
addUpvalue(cs, level, index, isLocal) ==
  LET c == cs.comps[level]
      upvalueCount == c.func.upvalueCount
      same == UpvalueAt(c.upvalues, upvalueCount, index, isLocal)
  IN IF same # {} THEN [cs |-> cs, v |-> Min(same)]
     ELSE IF upvalueCount = 256
     THEN [cs |-> error(cs, "Too many closure variables in function."), v |-> 0]
     ELSE [cs |-> [cs EXCEPT !.comps[level].upvalues =
                          Store(@, upvalueCount,
                                [index |-> index, isLocal |-> isLocal]),
                        !.comps[level].func.upvalueCount = @ + 1],
           v |-> upvalueCount]

\* resolveUpvalue of the compiler at level
RECURSIVE resolveUpvalue(_, _, _)
resolveUpvalue(cs, level, name) ==
  IF level = 1 THEN [cs |-> cs, v |-> -1]
  ELSE Let(resolveLocal(cs, level - 1, name), LAMBDA local :
         IF local.v # -1
         THEN addUpvalue([local.cs EXCEPT
                            !.comps[level - 1].locals[local.v + 1].isCaptured = TRUE],
                         level, local.v, TRUE)
         ELSE Let(resolveUpvalue(local.cs, level - 1, name), LAMBDA upvalue :
                IF upvalue.v # -1
                THEN addUpvalue(upvalue.cs, level, upvalue.v, FALSE)
                ELSE [cs |-> upvalue.cs, v |-> -1]))

addLocal(cs, name) ==
  IF Len(Cur(cs).locals) = 256
  THEN error(cs, "Too many local variables in function.")
  ELSE [cs EXCEPT !.comps[Len(cs.comps)].locals = Append(@, Local(name, -1))]

\* Not the source: a scan that does not stop at the enclosing scope.
declaredAnywhere(locals, scopeDepth, name, i) ==
  \E j \in 0..i : name = locals[j + 1].name

\* The scan of declareVariable from local i down: is the name already
\* declared in the current scope?
\* The loop breaks at the first local of an enclosing scope.
declaredInScope(locals, scopeDepth, name, i) ==
  LET break == Max({-1} \cup {j \in 0..i :
                                /\ locals[j + 1].depth # -1
                                /\ locals[j + 1].depth < scopeDepth})
  IN \E j \in (break + 1)..i : name = locals[j + 1].name

declareVariable(cs, name) ==
  IF Cur(cs).scopeDepth = 0 THEN cs
  ELSE addLocal(
         IF declaredInScope(Cur(cs).locals, Cur(cs).scopeDepth, name,
                            Len(Cur(cs).locals) - 1)
         THEN error(cs, "Already a variable with this name in this scope.")
         ELSE cs,
         name)

parseVariable(cs, name) ==
  Let(declareVariable(cs, name), LAMBDA cs1 :
    IF Cur(cs1).scopeDepth > 0 THEN [cs |-> cs1, v |-> 0]
    ELSE identifierConstant(cs1, name))

markInitialized(cs) ==
  IF Cur(cs).scopeDepth = 0 THEN cs
  ELSE [cs EXCEPT !.comps[Len(cs.comps)].locals[Len(Cur(cs).locals)].depth =
          Cur(cs).scopeDepth]

defineVariable(cs, global) ==
  IF Cur(cs).scopeDepth > 0 THEN markInitialized(cs)
  ELSE emitBytes(cs, OpCode.DEFINE_GLOBAL, global)

BinaryCode(op) ==
  CASE op = "!=" -> <<OpCode.EQUAL, OpCode.NOT>>
    [] op = "==" -> <<OpCode.EQUAL>>
    [] op = ">" -> <<OpCode.GREATER>>
    [] op = ">=" -> <<OpCode.LESS, OpCode.NOT>>
    [] op = "<" -> <<OpCode.LESS>>
    [] op = "<=" -> <<OpCode.GREATER, OpCode.NOT>>
    [] op = "+" -> <<OpCode.ADD>>
    [] op = "-" -> <<OpCode.SUBTRACT>>
    [] op = "*" -> <<OpCode.MULTIPLY>>
    [] op = "/" -> <<OpCode.DIVIDE>>

RECURSIVE emitAll(_, _)
emitAll(cs, bytes) ==
  IF bytes = <<>> THEN cs ELSE emitAll(emitByte(cs, Head(bytes)), Tail(bytes))

RECURSIVE expression(_, _)
RECURSIVE argumentList(_, _, _)
RECURSIVE namedVariable(_, _, _, _)
RECURSIVE parameters(_, _)

\* Not the source: every name is a global.
resolveGlobal(cs, name) ==
  Let(identifierConstant(cs, name), LAMBDA global :
    [cs |-> global.cs, arg |-> global.v,
     getOp |-> OpCode.GET_GLOBAL, setOp |-> OpCode.SET_GLOBAL])

\* the first half of Compiler.namedVariable: where the name resolves to
resolve(cs, name) ==
  Let(resolveLocal(cs, Len(cs.comps), name), LAMBDA local :
    IF local.v # -1
    THEN [cs |-> local.cs, arg |-> local.v, getOp |-> OpCode.GET_LOCAL,
          setOp |-> OpCode.SET_LOCAL]
    ELSE Let(resolveUpvalue(local.cs, Len(cs.comps), name), LAMBDA upvalue :
           IF upvalue.v # -1
           THEN [cs |-> upvalue.cs, arg |-> upvalue.v,
                 getOp |-> OpCode.GET_UPVALUE, setOp |-> OpCode.SET_UPVALUE]
           ELSE Let(identifierConstant(upvalue.cs, name), LAMBDA global :
                  [cs |-> global.cs, arg |-> global.v,
                   getOp |-> OpCode.GET_GLOBAL, setOp |-> OpCode.SET_GLOBAL])))

\* Compiler.namedVariable; assign tells whether `= value` follows.
namedVariable(cs, name, assign, value) ==
  Let(resolve(cs, name), LAMBDA r :
    IF assign
    THEN Then(expression(r.cs, value), LAMBDA cs1 :
           emitBytes(cs1, r.setOp, r.arg))
    ELSE emitBytes(r.cs, r.getOp, r.arg))

\* the arguments from the i-th on (argCount = i so far)
argumentList(cs, args, i) ==
  IF i >= Len(args) THEN cs
  ELSE Then(expression(cs, args[i + 1]), LAMBDA cs1 :
         argumentList(IF i = 255
                      THEN error(cs1, "Can't have more than 255 arguments.")
                      ELSE cs1,
                      args, i + 1))

\* Compiler.binary
binary(cs, x) ==
  Then(expression(cs, x.left), LAMBDA cs1 :
    Then(expression(cs1, x.right), LAMBDA cs2 :
      emitAll(cs2, BinaryCode(x.op))))

\* Not the source: an and that evaluates both operands.
andBoth(cs, x) ==
  Then(expression(cs, x.left), LAMBDA cs1 :
    expression(emitByte(cs1, OpCode.POP), x.right))

\* Compiler.and_
and_(cs, x) ==
  Then(expression(cs, x.left), LAMBDA cs1 :
    Let(emitJump(cs1, OpCode.JUMP_IF_FALSE), LAMBDA endJump :
      Then(expression(emitByte(endJump.cs, OpCode.POP), x.right), LAMBDA cs2 :
        patchJump(cs2, endJump.v))))

\* Compiler.or_
or_(cs, x) ==
  Then(expression(cs, x.left), LAMBDA cs1 :
    Let(emitJump(cs1, OpCode.JUMP_IF_FALSE), LAMBDA elseJump :
      Let(emitJump(elseJump.cs, OpCode.JUMP), LAMBDA endJump :
        Then(expression(emitByte(patchJump(endJump.cs, elseJump.v), OpCode.POP),
                        x.right),
             LAMBDA cs3 : patchJump(cs3, endJump.v)))))

\* Compiler.call
call_(cs, x) ==
  Then(expression(cs, x.callee), LAMBDA cs1 :
    Then(argumentList(cs1, x.args, 0), LAMBDA cs2 :
      emitBytes(cs2, OpCode.CALL, Len(x.args))))

\* Compiler.dot
dot(cs, x) ==
  Then(expression(cs, x.object), LAMBDA cs1 :
    Let(identifierConstant(cs1, x.name), LAMBDA name :
      CASE x.e = "set" ->
             Then(expression(name.cs, x.value), LAMBDA cs2 :
               emitBytes(cs2, OpCode.SET_PROPERTY, name.v))
        [] x.e = "invoke" ->
             Then(argumentList(name.cs, x.args, 0), LAMBDA cs2 :
               emitByte(emitBytes(cs2, OpCode.INVOKE, name.v), Len(x.args)))
        [] x.e = "get" -> emitBytes(name.cs, OpCode.GET_PROPERTY, name.v)))

\* Compiler.super_
super_(cs, x) ==
  Let(identifierConstant(
        IF Len(cs.klasses) = 0
        THEN error(cs, "Can't use 'super' outside of a class.")
        ELSE IF ~cs.klasses[Len(cs.klasses)]
        THEN error(cs, "Can't use 'super' in a class with no superclass.")
        ELSE cs,
        x.name),
      LAMBDA name :
        Then(namedVariable(name.cs, "this", FALSE, ELit("nil")), LAMBDA cs2 :
          IF x.e = "superInvoke"
          THEN Then(argumentList(cs2, x.args, 0), LAMBDA cs3 :
                 emitByte(
                   emitBytes(namedVariable(cs3, "super", FALSE, ELit("nil")),
                             OpCode.SUPER_INVOKE, name.v),
                   Len(x.args)))
          ELSE emitBytes(namedVariable(cs2, "super", FALSE, ELit("nil")),
                         OpCode.GET_SUPER, name.v)))

expression(cs, x) ==
  CASE x.e = "number" -> emitConstant(cs, Num(x.n))
    [] x.e = "string" ->
         Let(intern(cs.heap, cs.pool, x.chars), LAMBDA r :
           emitConstant([cs EXCEPT !.heap = r.heap, !.pool = r.pool], Obj(r.key)))
    [] x.e = "literal" ->
         emitByte(cs, CASE x.v = "false" -> OpCode.FALSE
                        [] x.v = "nil" -> OpCode.NIL
                        [] x.v = "true" -> OpCode.TRUE)
    [] x.e \in {"variable", "assign", "this"} ->
         IF x.e = "this" /\ Len(cs.klasses) = 0
         THEN error(cs, "Can't use 'this' outside of a class.")
         ELSE namedVariable(cs, IF x.e = "this" THEN "this" ELSE x.name,
                            x.e = "assign",
                            IF x.e = "assign" THEN x.value ELSE ELit("nil"))
    [] x.e = "binary" -> binary(cs, x)
    [] x.e = "unary" ->
         emitByte(expression(cs, x.operand),
                  IF x.op = "!" THEN OpCode.NOT ELSE OpCode.NEGATE)
    [] x.e = "and" -> and_(cs, x)
    [] x.e = "or" -> or_(cs, x)
    [] x.e = "call" -> call_(cs, x)
    [] x.e \in {"get", "set", "invoke"} -> dot(cs, x)
    [] x.e \in {"super", "superInvoke"} -> super_(cs, x)

\* the parameter loop of Compiler.fun, on the new compiler
parameters(cs, params) ==
  IF params = <<>> THEN cs
  ELSE Let(parseVariable(
             Let([cs EXCEPT !.comps[Len(cs.comps)].func.arity = @ + 1],
                 LAMBDA cs1 :
                   IF Cur(cs1).func.arity > 255
                   THEN error(cs1, "Can't have more than 255 parameters.")
                   ELSE cs1),
             Head(params)),
           LAMBDA constant :
             parameters(defineVariable(constant.cs, constant.v), Tail(params)))

\* the (isLocal, index) operands that follow CLOSURE, from the i-th on
upvaluePairs(cs, upvalues, i) ==
  LET n == 2 * (Len(upvalues) - i)
  IN [cs EXCEPT
        !.comps[Len(cs.comps)].func.code =
           @ \o SubSeq([k \in 1..n |->
                          IF k % 2 = 1
                          THEN (IF upvalues[i + (k + 1) \div 2].isLocal
                                THEN 1 ELSE 0)
                          ELSE upvalues[i + k \div 2].index], 1, n)]

\* the declarations of a block, a function body or the script, in order
Declarations(ds) ==
  SubSeq([i \in 1..Len(ds) |-> [w |-> "declaration", d |-> ds[i]]], 1, Len(ds))

Statement(d) == [w |-> "statement", d |-> d]

\* the methods of a class body, in order
Methods(ms) ==
  SubSeq([i \in 1..Len(ms) |-> [w |-> "method", f |-> ms[i]]], 1, Len(ms))

\* items are read next, before what was already left
Before(cs, items) == [cs EXCEPT !.todo = items \o @]

\* Compiler.fun(type) up to its body, the name being parser.previous.lexeme;
\* after is what the caller of fun goes on with.
fun(cs, type, name, params, body, after) ==
  Before(parameters(beginScope(Compiler(cs, type, name)), params),
         Declarations(body) \o <<after>>)

\* Compiler.fun(type) from the end of its body
endFun(cs) ==
  Let(Cur(emitReturn(cs)), LAMBDA compiler :
    Let(makeConstant(end(cs), Obj(compiler.funcRef)), LAMBDA func :
      upvaluePairs(emitBytes(func.cs, OpCode.CLOSURE, func.v),
                   SubSeq(compiler.upvalues, 1, compiler.func.upvalueCount),
                   0)))

\* Compiler.method up to the body of the method
method(cs, f) ==
  Let(identifierConstant(cs, f.name), LAMBDA constant :
    fun(constant.cs, IF f.name = "init" THEN "INITIALIZER" ELSE "METHOD",
        f.name, f.params, f.body,
        [w |-> "endMethod", constant |-> constant.v]))

\* Compiler.method from the end of the body
endMethod(cs, constant) == emitBytes(endFun(cs), OpCode.METHOD, constant)

\* the superclass clause of Compiler.classDeclaration
inherit(cs, d) ==
  Then(namedVariable(cs, d.super, FALSE, ELit("nil")), LAMBDA a :
    Then(emitByte(
           namedVariable(
             defineVariable(
               addLocal(
                 beginScope(IF d.name = d.super
                            THEN error(a, "A class can't inherit from itself.")
                            ELSE a),
                 "super"),
               0),
             d.name, FALSE, ELit("nil")),
           OpCode.INHERIT),
         LAMBDA e : [e EXCEPT !.klasses[Len(e.klasses)] = TRUE]))

\* Compiler.classDeclaration up to the methods
classDeclaration(cs, d) ==
  Let(identifierConstant(cs, d.name), LAMBDA nameConstant :
    Then([defineVariable(
            emitBytes(declareVariable(nameConstant.cs, d.name),
                      OpCode.CLASS, nameConstant.v),
            nameConstant.v)
            EXCEPT !.klasses = Append(@, FALSE)],
         LAMBDA cs2 :
           Before(namedVariable(IF d.hasSuper THEN inherit(cs2, d) ELSE cs2,
                                d.name, FALSE, ELit("nil")),
                  Methods(d.methods) \o <<[w |-> "endClass"]>>)))

\* Compiler.classDeclaration from the closing brace
endClass(cs) ==
  Let(emitByte(cs, OpCode.POP), LAMBDA cs5 :
    [(IF cs5.klasses[Len(cs5.klasses)] THEN endScope(cs5) ELSE cs5)
       EXCEPT !.klasses = SubSeq(@, 1, Len(@) - 1)])

\* Compiler.funDeclaration up to the body of the function
funDeclaration(cs, d) ==
  Let(parseVariable(cs, d.name), LAMBDA global :
    fun(markInitialized(global.cs), "FUNCTION", d.name, d.params, d.body,
        [w |-> "endFunDeclaration", global |-> global.v]))

\* Compiler.funDeclaration from the end of the body
endFunDeclaration(cs, global) == defineVariable(endFun(cs), global)

varDeclaration(cs, d) ==
  Let(parseVariable(cs, d.name), LAMBDA global :
    Then(IF d.hasInit THEN expression(global.cs, d.x)
         ELSE emitByte(global.cs, OpCode.NIL),
         LAMBDA cs1 : defineVariable(cs1, global.v)))

\* Compiler.ifStatement up to the then branch
ifStatement(cs, d) ==
  Then(expression(cs, d.cond), LAMBDA cs1 :
    Let(emitJump(cs1, OpCode.JUMP_IF_FALSE), LAMBDA thenJump :
      Before(emitByte(thenJump.cs, OpCode.POP),
             <<Statement(d.then),
               [w |-> "else", thenJump |-> thenJump.v, d |-> d]>>)))

\* Compiler.ifStatement from the end of the then branch to the else branch
else(cs, thenJump, d) ==
  Let(emitJump(cs, OpCode.JUMP), LAMBDA elseJump :
    Before(emitByte(patchJump(elseJump.cs, thenJump), OpCode.POP),
           (IF d.hasElse THEN <<Statement(d.else)>> ELSE <<>>)
             \o <<[w |-> "endIf", elseJump |-> elseJump.v]>>))

\* Compiler.ifStatement: its last line
endIf(cs, elseJump) == patchJump(cs, elseJump)

returnStatement(cs, d) ==
  Let(IF Cur(cs).type = "SCRIPT"
      THEN error(cs, "Can't return from top-level code.")
      ELSE cs,
      LAMBDA cs1 :
        IF ~d.hasValue THEN emitReturn(cs1)
        ELSE emitByte(
               expression(IF Cur(cs1).type = "INITIALIZER"
                          THEN error(cs1, "Can't return a value from an initializer.")
                          ELSE cs1,
                          d.x),
               OpCode.RETURN))

\* Compiler.whileStatement up to the body
whileStatement(cs, d) ==
  Then(expression(cs, d.cond), LAMBDA cs1 :
    Let(emitJump(cs1, OpCode.JUMP_IF_FALSE), LAMBDA exitJump :
      Before(emitByte(exitJump.cs, OpCode.POP),
             <<Statement(d.body),
               [w |-> "endWhile", loopStart |-> Count(cs),
                exitJump |-> exitJump.v]>>)))

\* Compiler.whileStatement from the end of the body
endWhile(cs, loopStart, exitJump) ==
  emitByte(patchJump(emitLoop(cs, loopStart), exitJump), OpCode.POP)

\* Not the source: the increment clause compiled in line, before the body.
forIncrementFirst(cs, d) ==
  Then(IF d.init.s = "none" THEN beginScope(cs)
       ELSE IF d.init.s = "var" THEN varDeclaration(beginScope(cs), d.init)
       ELSE emitByte(expression(beginScope(cs), d.init.x), OpCode.POP),
       LAMBDA cs1 :
         Let(IF d.cond.e = "none" THEN [cs |-> cs1, v |-> -1]
             ELSE Let(emitJump(expression(cs1, d.cond), OpCode.JUMP_IF_FALSE),
                      LAMBDA j : [cs |-> emitByte(j.cs, OpCode.POP), v |-> j.v]),
             LAMBDA exitJump :
               Before(IF d.incr.e = "none" THEN exitJump.cs
                      ELSE emitByte(expression(exitJump.cs, d.incr), OpCode.POP),
                      <<Statement(d.body),
                        [w |-> "endFor", loopStart |-> Count(cs1),
                         exitJump |-> exitJump.v]>>)))

\* Compiler.forStatement up to the body: the initializer, the condition and
\* the increment clause, each where it is present
forStatement(cs, d) ==
  Then(IF d.init.s = "none" THEN beginScope(cs)
       ELSE IF d.init.s = "var" THEN varDeclaration(beginScope(cs), d.init)
       ELSE emitByte(expression(beginScope(cs), d.init.x), OpCode.POP),
       LAMBDA cs1 :
         Let(IF d.cond.e = "none" THEN [cs |-> cs1, v |-> -1]
             ELSE Let(emitJump(expression(cs1, d.cond), OpCode.JUMP_IF_FALSE),
                      LAMBDA j : [cs |-> emitByte(j.cs, OpCode.POP), v |-> j.v]),
             LAMBDA exitJump :
               Let(IF d.incr.e = "none"
                   THEN [cs |-> exitJump.cs, v |-> Count(cs1)]
                   ELSE Let(emitJump(exitJump.cs, OpCode.JUMP), LAMBDA bodyJump :
                          [cs |-> patchJump(
                                    emitLoop(
                                      emitByte(expression(bodyJump.cs, d.incr),
                                               OpCode.POP),
                                      Count(cs1)),
                                    bodyJump.v),
                           v |-> Count(bodyJump.cs)]),
                   LAMBDA loopStart :
                     Before(loopStart.cs,
                            <<Statement(d.body),
                              [w |-> "endFor", loopStart |-> loopStart.v,
                               exitJump |-> exitJump.v]>>))))

\* Compiler.forStatement from the end of the body
endFor(cs, loopStart, exitJump) ==
  Let(emitLoop(cs, loopStart), LAMBDA cs1 :
    endScope(IF exitJump # -1
             THEN emitByte(patchJump(cs1, exitJump), OpCode.POP)
             ELSE cs1))

\* Compiler.block, and Compiler.statement around it, up to the declarations
block(cs, d) ==
  Before(beginScope(cs), Declarations(d.body) \o <<[w |-> "endScope"]>>)

statement(cs, d) ==
  CASE d.s = "print" -> emitByte(expression(cs, d.x), OpCode.PRINT)
    [] d.s = "for" -> forStatement(cs, d)
    [] d.s = "if" -> ifStatement(cs, d)
    [] d.s = "return" -> returnStatement(cs, d)
    [] d.s = "while" -> whileStatement(cs, d)
    [] d.s = "block" -> block(cs, d)
    [] d.s = "expression" -> emitByte(expression(cs, d.x), OpCode.POP)

\* Compiler.declaration up to its last line
declaration(cs, d) ==
  CASE d.s = "class" -> classDeclaration(cs, d)
    [] d.s = "fun" -> funDeclaration(cs, d)
    [] d.s = "var" -> varDeclaration(cs, d)
    [] OTHER -> statement(cs, d)

\* Compiler.declaration: its last line.  The parsed input has no syntax
\* error, so synchronize() finds its statement boundary at once.
synchronize(cs) ==
  IF cs.panicMode THEN [cs EXCEPT !.panicMode = FALSE] ELSE cs

\* What the parser reads next: the first item of todo.
compileStep(cs, item) ==
  CASE item.w = "declaration" ->
         declaration(Before(cs, <<[w |-> "synchronize"]>>), item.d)
    [] item.w = "synchronize" -> synchronize(cs)
    [] item.w = "statement" -> statement(cs, item.d)
    [] item.w = "else" -> else(cs, item.thenJump, item.d)
    [] item.w = "endIf" -> endIf(cs, item.elseJump)
    [] item.w = "endWhile" -> endWhile(cs, item.loopStart, item.exitJump)
    [] item.w = "endFor" -> endFor(cs, item.loopStart, item.exitJump)
    [] item.w = "endScope" -> endScope(cs)
    [] item.w = "method" -> method(cs, item.f)
    [] item.w = "endMethod" -> endMethod(cs, item.constant)
    [] item.w = "endClass" -> endClass(cs)
    [] item.w = "endFunDeclaration" -> endFunDeclaration(cs, item.global)

\* Parser.errorAtCurrent on an ERROR token, whose lexeme is the message: the
\* log line has no " at '...': " for it (the position is left out)
errorAtCurrent(cs, message) ==
  IF cs.panicMode THEN cs
  ELSE [cs EXCEPT !.panicMode = TRUE, !.hadError = TRUE,
                  !.err = Append(@, "Error" \o message)]

\* Parser.advance as the constructor of Parser calls it: the ERROR tokens
\* that the scanner returns before the first token are reported, and the
\* declarations that follow are what the parser reads.
RECURSIVE advance(_, _)
advance(cs, program) ==
  IF program # <<>> /\ program[1].s = "error"
  THEN advance(errorAtCurrent(cs, program[1].lexeme), Tail(program))
  ELSE [cs EXCEPT !.todo = Declarations(program)]

\* compile(source, pool) up to its loop: parser and compiler are made
compile(h, p, e, program) ==
  Compiler(advance([heap |-> h, pool |-> p, err |-> e, comps |-> <<>>,
                    klasses |-> <<>>, hadError |-> FALSE,
                    panicMode |-> FALSE, todo |-> <<>>],
                   program),
           "SCRIPT", "")

\* Not the source: the function is returned whatever hadError is.
endCompileAlways(cs) == [cs |-> end(cs), func |-> Cur(cs).funcRef]

\* compile(source, pool) from the end of its loop: the compilation, and the
\* function returned, 0 for null.
endCompile(cs) ==
  [cs |-> end(cs), func |-> IF cs.hadError THEN 0 ELSE Cur(cs).funcRef]

(***************************************************************************)
(* VM.run: one action for each case of the dispatch switch.                *)
(***************************************************************************)
Chunk(m) == FuncOf(m, m.frame.closure)

\* the byte k places after frame.ip (-1 for undefined, past the end)
ByteAt(m, k) ==
  IF m.frame.ip + k < Len(Chunk(m).code) THEN Chunk(m).code[m.frame.ip + k + 1]
  ELSE -1

\* (b0 << 8) | b1 for the two bytes k places after frame.ip
ShortAt(m, k) == ByteAt(m, k) * 256 + ByteAt(m, k + 1)

\* constants[b] for the byte k places after frame.ip
ConstantAt(m, k) == At(Chunk(m).constants, ByteAt(m, k))

\* frame.ip moves by n; frame is the top element of frames whenever frames
\* is not empty, so the element moves with it.
Advance(m, n) ==
  [m EXCEPT !.frame.ip = @ + n,
            !.frames = IF Len(@) > 0 THEN [@ EXCEPT ![Len(@)].ip = m.frame.ip + n]
                       ELSE @]

Commit(m) ==
  /\ heap' = m.heap
  /\ pool' = m.pool
  /\ globals' = m.globals
  /\ stack' = m.stack
  /\ frames' = m.frames
  /\ openUpvalues' = m.openUpvalues
  /\ initString' = m.initString
  /\ out' = m.out
  /\ err' = m.err
  /\ UNCHANGED <<runs, comp, sc, tb>>

\* break: the loop goes on to the next instruction
Continue(m) == Commit(m) /\ frame' = m.frame /\ status' = "running" /\ result' = result

\* return r: run, and with it interpret, returns
Return(m, r) == Commit(m) /\ frame' = NoFrame /\ status' = "idle" /\ result' = r

\* an exception of the host leaves run, interpret and the process
Throw(m) == Commit(m) /\ frame' = NoFrame /\ status' = "crashed" /\ result' = "THROWN"

\* a handler that went through a call: on false return RUNTIME_ERROR, else
\* frame = this.frames[this.frames.length - 1]
AfterCall(r) ==
  IF r.ok THEN Continue([r.m EXCEPT !.frame = LastFrame(r.m.frames)])
  ELSE Return(r.m, "RUNTIME_ERROR")

\* Bounds of the model: interpret calls on one VM, and the stack depth at
\* which the model stops following a run.
MaxRuns == 1
StackCap == 140

\* readByte() yields op: the switch of run takes that case.
Fetch(op) ==
  status = "running" /\ Len(stack) < StackCap /\ ByteAt(M, 0) = op

OP_CONSTANT ==
  Fetch(OpCode.CONSTANT) /\ Continue(Push(Advance(M, 2), ConstantAt(M, 1)))

OP_NIL == Fetch(OpCode.NIL) /\ Continue(Push(Advance(M, 1), Nil))

OP_TRUE == Fetch(OpCode.TRUE) /\ Continue(Push(Advance(M, 1), Bool(TRUE)))

OP_FALSE == Fetch(OpCode.FALSE) /\ Continue(Push(Advance(M, 1), Bool(FALSE)))

OP_POP == Fetch(OpCode.POP) /\ Continue(Drop(Advance(M, 1)))

OP_GET_LOCAL ==
  /\ Fetch(OpCode.GET_LOCAL)
  /\ Continue(Push(Advance(M, 2), At(stack, frame.offset + ByteAt(M, 1))))

OP_GET_GLOBAL ==
  /\ Fetch(OpCode.GET_GLOBAL)
  /\ LET m == Advance(M, 2)
         name == ConstantAt(M, 1).v
         value == get(heap, globals, name)
     IN IF value = Undef
        THEN Return(runtimeError(m, "Undefined global '" \o heap[name].chars \o "'."),
                    "RUNTIME_ERROR")
        ELSE Continue(Push(m, value))

OP_DEFINE_GLOBAL ==
  /\ Fetch(OpCode.DEFINE_GLOBAL)
  /\ LET m == Advance(M, 2)
     IN Continue(Drop([m EXCEPT !.globals =
                         set(heap, @, ConstantAt(M, 1).v, Top(stack)).table]))

OP_SET_LOCAL ==
  /\ Fetch(OpCode.SET_LOCAL)
  /\ Continue([Advance(M, 2) EXCEPT
                 !.stack = Store(@, frame.offset + ByteAt(M, 1), Top(stack))])

OP_SET_GLOBAL ==
  /\ Fetch(OpCode.SET_GLOBAL)
  /\ LET m == Advance(M, 2)
         name == ConstantAt(M, 1).v
         r == set(heap, globals, name, Top(stack))
     IN IF r.isNewKey
        THEN Return(runtimeError([m EXCEPT !.globals = delete(heap, r.table, name).table],
                                 "Undefined global '" \o heap[name].chars \o "'."),
                    "RUNTIME_ERROR")
        ELSE Continue([m EXCEPT !.globals = r.table])

\* frame.closure.upvalues[slot]
UpvalueOf(m, slot) == m.heap[m.heap[m.frame.closure].upvalues[slot + 1]]

OP_GET_UPVALUE ==
  /\ Fetch(OpCode.GET_UPVALUE)
  /\ LET upvalue == UpvalueOf(M, ByteAt(M, 1))
     IN Continue(Push(Advance(M, 2),
                      IF upvalue.index < 0 THEN upvalue.closed
                      ELSE At(stack, upvalue.index)))

OP_SET_UPVALUE ==
  /\ Fetch(OpCode.SET_UPVALUE)
  /\ LET ref == heap[frame.closure].upvalues[ByteAt(M, 1) + 1]
         index == heap[ref].index
     IN Continue(IF index < 0
                 THEN [Advance(M, 2) EXCEPT !.heap[ref].closed = Top(stack)]
                 ELSE [Advance(M, 2) EXCEPT !.stack = Store(@, index, Top(stack))])

OP_GET_PROPERTY ==
  /\ Fetch(OpCode.GET_PROPERTY)
  /\ LET instance == Top(stack)
     IN IF KindOf(heap, instance) # "instance"
        THEN Return(runtimeError(Advance(M, 1), "Only instances have properties."),
                    "RUNTIME_ERROR")
        ELSE LET m == Advance(M, 2)
                 name == ConstantAt(M, 1).v
                 value == get(heap, heap[instance.v].fields, name)
             IN IF Truthy(value) THEN Continue(Push(Drop(m), value))
                ELSE LET r == bindMethod(m, heap[instance.v].klass, name)
                     IN IF r.ok THEN Continue(r.m) ELSE Return(r.m, "RUNTIME_ERROR")

OP_SET_PROPERTY ==
  /\ Fetch(OpCode.SET_PROPERTY)
  /\ LET instance == peek(M, 1)
     IN IF KindOf(heap, instance) # "instance"
        THEN Return(runtimeError(Advance(M, 1), "Only instances have fields."),
                    "RUNTIME_ERROR")
        ELSE LET m == [Advance(M, 2) EXCEPT !.heap[instance.v].fields =
                         set(heap, @, ConstantAt(M, 1).v, Top(stack)).table]
             IN Continue(Push(Drop(Drop(m)), Top(stack)))

OP_GET_SUPER ==
  /\ Fetch(OpCode.GET_SUPER)
  /\ LET r == bindMethod(Drop(Advance(M, 2)), Top(stack).v, ConstantAt(M, 1).v)
     IN IF r.ok THEN Continue(r.m) ELSE Return(r.m, "RUNTIME_ERROR")

OP_EQUAL ==
  /\ Fetch(OpCode.EQUAL)
  /\ Continue(Push(Drop(Drop(Advance(M, 1))), Bool(peek(M, 1) = peek(M, 0))))

\* the five cases that call binaryOp and break, whatever it returned
BinaryCase(op) == Continue(binaryOp(Advance(M, 1), op).m)

OP_GREATER == Fetch(OpCode.GREATER) /\ BinaryCase("GREATER")

OP_LESS == Fetch(OpCode.LESS) /\ BinaryCase("LESS")

OP_ADD ==
  /\ Fetch(OpCode.ADD)
  /\ LET m == Advance(M, 1)
     IN IF KindOf(heap, peek(M, 0)) = "string" /\ KindOf(heap, peek(M, 1)) = "string"
        THEN Continue(concatenate(m))
        ELSE IF IsNum(peek(M, 0)) /\ IsNum(peek(M, 1))
        THEN Continue(Push(Drop(Drop(m)), Num(peek(M, 1).v + peek(M, 0).v)))
        ELSE Return(runtimeError(m, "Operands must be two numbers or two strings, where "
                                     \o valueType(peek(M, 1)) \o " and "
                                     \o valueType(peek(M, 0))),
                    "RUNTIME_ERROR")

OP_SUBTRACT == Fetch(OpCode.SUBTRACT) /\ BinaryCase("SUBTRACT")

OP_MULTIPLY == Fetch(OpCode.MULTIPLY) /\ BinaryCase("MULTIPLY")

OP_DIVIDE == Fetch(OpCode.DIVIDE) /\ BinaryCase("DIVIDE")

OP_NOT ==
  Fetch(OpCode.NOT) /\ Continue(Push(Drop(Advance(M, 1)), Bool(isFalsey(Top(stack)))))

OP_NEGATE ==
  /\ Fetch(OpCode.NEGATE)
  /\ IF ~IsNum(Top(stack))
     THEN Return(runtimeError(Advance(M, 1), "Operand must be a number."),
                 "RUNTIME_ERROR")
     ELSE Continue(Push(Drop(Advance(M, 1)), Num(-Top(stack).v)))

OP_PRINT ==
  Fetch(OpCode.PRINT) /\ Continue(printValue(Drop(Advance(M, 1)), Top(stack)))

OP_JUMP == Fetch(OpCode.JUMP) /\ Continue(Advance(M, 3 + ShortAt(M, 1)))

OP_JUMP_IF_FALSE ==
  /\ Fetch(OpCode.JUMP_IF_FALSE)
  /\ Continue(Advance(M, IF isFalsey(Top(stack)) THEN 3 + ShortAt(M, 1) ELSE 3))

OP_LOOP == Fetch(OpCode.LOOP) /\ Continue(Advance(M, 3 - ShortAt(M, 1)))

\* what Date.now() / 1000 may return
ClockValues == {1, 2}

OP_CALL ==
  /\ Fetch(OpCode.CALL)
  /\ \E now \in ClockValues :
       LET argCount == ByteAt(M, 1)
       IN AfterCall(callValue(Advance(M, 2), peek(M, argCount), argCount, now))

OP_INVOKE ==
  /\ Fetch(OpCode.INVOKE)
  /\ \E now \in ClockValues :
       AfterCall(invoke(Advance(M, 3), ConstantAt(M, 1).v, ByteAt(M, 2), now))

\* Not the source: a SUPER_INVOKE that looks the method up in the class of
\* the receiver.
OP_SUPER_INVOKE_DYNAMIC ==
  /\ Fetch(OpCode.SUPER_INVOKE)
  /\ AfterCall(invokeFromClass(Drop(Advance(M, 3)),
                               heap[peek(M, ByteAt(M, 2) + 1).v].klass,
                               ConstantAt(M, 1).v, ByteAt(M, 2)))

OP_SUPER_INVOKE ==
  /\ Fetch(OpCode.SUPER_INVOKE)
  /\ AfterCall(invokeFromClass(Drop(Advance(M, 3)), Top(stack).v,
                               ConstantAt(M, 1).v, ByteAt(M, 2)))

\* Not the source: a CLOSURE that captures nothing.
closureNone(m, closure, i, upvalueCount) == m

\* The loop of the CLOSURE case over upvalue i .. upvalueCount-1; ip is at
\* the i-th (isLocal, index) pair.
RECURSIVE closureLoop(_, _, _, _)
closureLoop(m, closure, i, upvalueCount) ==
  IF i >= upvalueCount THEN m
  ELSE LET isLocal == ByteAt(m, 0)
           index == ByteAt(m, 1)
           m1 == Advance(m, 2)
           captured == captureUpvalue(m1, m1.frame.offset + index)
       IN IF isLocal # 0
          THEN closureLoop([captured.m EXCEPT !.heap[closure].upvalues =
                              Store(@, i, captured.upvalue)],
                           closure, i + 1, upvalueCount)
          ELSE closureLoop([m1 EXCEPT !.heap[closure].upvalues =
                              Store(@, i, m1.heap[m1.frame.closure].upvalues[index + 1])],
                           closure, i + 1, upvalueCount)

OP_CLOSURE ==
  /\ Fetch(OpCode.CLOSURE)
  /\ LET func == ConstantAt(M, 1).v
         m == Alloc(Advance(M, 2), Closure(func))
         closure == Len(m.heap)
     IN Continue(closureLoop(Push(m, Obj(closure)), closure, 0,
                             heap[func].upvalueCount))

OP_CLOSE_UPVALUE ==
  /\ Fetch(OpCode.CLOSE_UPVALUE)
  /\ Continue(Drop(closeUpvalues(Advance(M, 1), Len(stack) - 1)))

\* Not the source: a RETURN that leaves on the stack what the callee left.
OP_RETURN_KEEPING ==
  /\ Fetch(OpCode.RETURN)
  /\ LET value == Top(stack)
         m == closeUpvalues(Drop(Advance(M, 1)), frame.offset)
     IN IF Len(frames) = 0 THEN Throw(m)
        ELSE IF Len(frames) = 1
        THEN Return(Drop([m EXCEPT !.frames = <<>>]), "OK")
        ELSE LET m1 == [m EXCEPT !.frames = SubSeq(@, 1, Len(@) - 1),
                                 !.stack = Append(@, value)]
             IN Continue([m1 EXCEPT !.frame = LastFrame(m1.frames)])

OP_RETURN ==
  /\ Fetch(OpCode.RETURN)
  /\ LET value == Top(stack)
         m == closeUpvalues(Drop(Advance(M, 1)), frame.offset)
     IN IF Len(frames) = 0 THEN Throw(m)   \* frames.length-- : RangeError
        ELSE IF Len(frames) = 1
        THEN Return(Drop([m EXCEPT !.frames = <<>>]), "OK")
        ELSE LET m1 == [m EXCEPT !.frames = SubSeq(@, 1, Len(@) - 1),
                                 !.stack = Append(SetLength(@, frame.offset), value)]
             IN Continue([m1 EXCEPT !.frame = LastFrame(m1.frames)])

OP_CLASS ==
  /\ Fetch(OpCode.CLASS)
  /\ LET m == Alloc(Advance(M, 2), LoxClass(ConstantAt(M, 1).v))
     IN Continue(Push(m, Obj(Len(m.heap))))

OP_INHERIT ==
  /\ Fetch(OpCode.INHERIT)
  /\ LET superclass == peek(M, 1)
         subclass == peek(M, 0)
     IN IF KindOf(heap, superclass) # "class"
        THEN Return(runtimeError(Advance(M, 1), "Superclass must be a class."),
                    "RUNTIME_ERROR")
        ELSE Continue(Drop([Advance(M, 1) EXCEPT !.heap[subclass.v].methods =
                              addAll(heap, @, heap[superclass.v].methods)]))

OP_METHOD ==
  Fetch(OpCode.METHOD) /\ Continue(defineMethod(Advance(M, 2), ConstantAt(M, 1).v))

Step ==
  \/ OP_CONSTANT \/ OP_NIL \/ OP_TRUE \/ OP_FALSE \/ OP_POP
  \/ OP_GET_LOCAL \/ OP_GET_GLOBAL \/ OP_DEFINE_GLOBAL \/ OP_SET_LOCAL
  \/ OP_SET_GLOBAL \/ OP_GET_UPVALUE \/ OP_SET_UPVALUE
  \/ OP_GET_PROPERTY \/ OP_SET_PROPERTY \/ OP_GET_SUPER
  \/ OP_EQUAL \/ OP_GREATER \/ OP_LESS \/ OP_ADD \/ OP_SUBTRACT
  \/ OP_MULTIPLY \/ OP_DIVIDE \/ OP_NOT \/ OP_NEGATE \/ OP_PRINT
  \/ OP_JUMP \/ OP_JUMP_IF_FALSE \/ OP_LOOP
  \/ OP_CALL \/ OP_INVOKE \/ OP_SUPER_INVOKE
  \/ OP_CLOSURE \/ OP_CLOSE_UPVALUE \/ OP_RETURN
  \/ OP_CLASS \/ OP_INHERIT \/ OP_METHOD

(***************************************************************************)
(* VM.interpret and the construction of the pool and the VM (main.ts).     *)
(***************************************************************************)
\* VM.interpret from the return of compile, with the function (0 for
\* null) compile returned, up to the call of run: the machine, and what
\* interpret returns at once ("" when run is entered).
interpret(m, func) ==
  LET m2 == Alloc(m, Closure(func))
      m3 == call(Push(m2, Obj(Len(m2.heap))), Len(m2.heap), 0).m
  IN IF func = 0 THEN [m |-> m, returned |-> "COMPILE_ERROR"]
     ELSE [m |-> [m3 EXCEPT !.frame = LastFrame(m3.frames)], returned |-> ""]

\* defineNative(name, f)
defineNative(m, name) ==
  Let(intern(m.heap, m.pool, name), LAMBDA r :
    LET h == Append(r.heap, Native)
    IN [m EXCEPT !.heap = h, !.pool = r.pool,
                 !.globals = set(h, @, r.key, Obj(Len(h))).table])

\* new VM(new Pool())
NewVM ==
  Let(defineNative(
        [heap |-> <<>>, pool |-> EmptyTable, globals |-> EmptyTable,
         stack |-> <<>>, frames |-> <<>>, frame |-> NoFrame,
         openUpvalues |-> 0, initString |-> 0, out |-> <<>>, err |-> <<>>],
        "clock"),
      LAMBDA m :
        Let(intern(m.heap, m.pool, "init"), LAMBDA r :
          [m EXCEPT !.heap = r.heap, !.pool = r.pool, !.initString = r.key]))

(***************************************************************************)
(* The programs handed to interpret, as the parser reads them.             *)
(***************************************************************************)
\* print 1 <op> nil; print 2;   and the like
BinaryProgram(op, left, right) ==
  <<SPrint(EBin(op, left, right)), SPrint(ENum(2))>>

\* class A { <methods> }  var a = A();  a.f = <value>;  print a.f;
FieldProgram(ms, value) ==
  <<SClass("A", ms), SVar("a", ECall(EVar("A"), <<>>)),
    SExpr(ESet(EVar("a"), "f", value)), SPrint(EGet(EVar("a"), "f"))>>

\* clock(); print clock() == clock();
NativeProgram ==
  <<SExpr(ECall(EVar("clock"), <<>>)),
    SPrint(EBin("==", ECall(EVar("clock"), <<>>), ECall(EVar("clock"), <<>>)))>>

\* while (true) clock();
NativeLoop == <<SWhile(ELit("true"), SExpr(ECall(EVar("clock"), <<>>)))>>

\* fun f(n) { f(n + 1); }  f(1);
Recursion ==
  <<SFun("f", <<"n">>,
         <<SExpr(ECall(EVar("f"), <<EBin("+", EVar("n"), ENum(1))>>))>>),
    SExpr(ECall(EVar("f"), <<ENum(1)>>))>>

\* fun f(n) { if (n < 63) f(n + 1); else print clock(); }  f(1);
RecursionNative ==
  <<SFun("f", <<"n">>,
         <<SIfElse(EBin("<", EVar("n"), ENum(FRAMES_MAX - 1)),
                   SExpr(ECall(EVar("f"), <<EBin("+", EVar("n"), ENum(1))>>)),
                   SPrint(ECall(EVar("clock"), <<>>)))>>),
    SExpr(ECall(EVar("f"), <<ENum(1)>>))>>

\* fun f(n) { if (n < 63) f(n + 1); else f(); }  f(1);
RecursionArity ==
  <<SFun("f", <<"n">>,
         <<SIfElse(EBin("<", EVar("n"), ENum(FRAMES_MAX - 1)),
                   SExpr(ECall(EVar("f"), <<EBin("+", EVar("n"), ENum(1))>>)),
                   SExpr(ECall(EVar("f"), <<>>)))>>),
    SExpr(ECall(EVar("f"), <<ENum(1)>>))>>

\* fun outer() {
\*   var a = 1; var b = 2;
\*   fun f() { b = b + a; return b; }
\*   fun g() { return a; }
\*   { var c = 3; fun h() { return c; } print h(); }
\*   print f(); print g();
\*   return f;
\* }
\* var k = outer(); print k();
Closures ==
  <<SFun("outer", <<>>,
         <<SVar("a", ENum(1)), SVar("b", ENum(2)),
           SFun("f", <<>>,
                <<SExpr(EAssign("b", EBin("+", EVar("b"), EVar("a")))),
                  SReturn(EVar("b"))>>),
           SFun("g", <<>>, <<SReturn(EVar("a"))>>),
           SBlock(<<SVar("c", ENum(3)),
                    SFun("h", <<>>, <<SReturn(EVar("c"))>>),
                    SPrint(ECall(EVar("h"), <<>>))>>),
           SPrint(ECall(EVar("f"), <<>>)), SPrint(ECall(EVar("g"), <<>>)),
           SReturn(EVar("f"))>>),
    SVar("k", ECall(EVar("outer"), <<>>)), SPrint(ECall(EVar("k"), <<>>))>>

\* fun mk() {
\*   var i = 0;
\*   fun mid() { fun inc() { i = i + 1; return i; } return inc; }
\*   return mid;
\* }
\* var c = mk()(); print c(); print c();
Nested ==
  <<SFun("mk", <<>>,
         <<SVar("i", ENum(0)),
           SFun("mid", <<>>,
                <<SFun("inc", <<>>,
                       <<SExpr(EAssign("i", EBin("+", EVar("i"), ENum(1)))),
                         SReturn(EVar("i"))>>),
                  SReturn(EVar("inc"))>>),
           SReturn(EVar("mid"))>>),
    SVar("c", ECall(ECall(EVar("mk"), <<>>), <<>>)),
    SPrint(ECall(EVar("c"), <<>>)), SPrint(ECall(EVar("c"), <<>>))>>

\* class A { init(f) { this.f = f; } g() { return "a" + this.f; } }
\* class B < A { g() { return super.g() + "c"; } h() { var m = super.g; return m(); } }
\* var b = B("b"); print b.g(); print b.h();
Classes ==
  <<SClass("A", <<SFun("init", <<"f">>, <<SExpr(ESet(EThis, "f", EVar("f")))>>),
                  SFun("g", <<>>, <<SReturn(EBin("+", EStr("a"), EGet(EThis, "f")))>>)>>),
    SSubclass("B", "A",
              <<SFun("g", <<>>, <<SReturn(EBin("+", ESuperInvoke("g", <<>>), EStr("c")))>>),
                SFun("h", <<>>, <<SVar("m", ESuper("g")),
                                  SReturn(ECall(EVar("m"), <<>>))>>)>>),
    SVar("b", ECall(EVar("B"), <<EStr("b")>>)),
    SPrint(EInvoke(EVar("b"), "g", <<>>)), SPrint(EInvoke(EVar("b"), "h", <<>>))>>

\* var a = 3; var b;
\* while (a > 0 and !(a == 0)) { var d = a * 2; d = d / 2; a = d - 1; }
\* if (a < 1 or false) print -a; else print nil;
Control ==
  <<SVar("a", ENum(3)), SVarNil("b"),
    SWhile(EAnd(EBin(">", EVar("a"), ENum(0)),
                EUnary("!", EBin("==", EVar("a"), ENum(0)))),
           SBlock(<<SVar("d", EBin("*", EVar("a"), ENum(2))),
                    SExpr(EAssign("d", EBin("/", EVar("d"), ENum(2)))),
                    SExpr(EAssign("a", EBin("-", EVar("d"), ENum(1))))>>)),
    SIfElse(EOr(EBin("<", EVar("a"), ENum(1)), ELit("false")),
            SPrint(EUnary("-", EVar("a"))), SPrint(ELit("nil")))>>

\* var a = "a"; var b = "b"; var c = a + b; var d = "ab";
\* print c == d; print c == a;
Interning ==
  <<SVar("a", EStr("a")), SVar("b", EStr("b")),
    SVar("c", EBin("+", EVar("a"), EVar("b"))), SVar("d", EStr("ab")),
    SPrint(EBin("==", EVar("c"), EVar("d"))),
    SPrint(EBin("==", EVar("c"), EVar("a")))>>

\* fun outer() {
\*   var a = 1;
\*   fun f() { return a; }
\*   fun w() { var x = 5; fun r() { return x; } return r; }
\*   return w()() + f();
\* }
\* print outer();
Escaping ==
  <<SFun("outer", <<>>,
         <<SVar("a", ENum(1)),
           SFun("f", <<>>, <<SReturn(EVar("a"))>>),
           SFun("w", <<>>,
                <<SVar("x", ENum(5)),
                  SFun("r", <<>>, <<SReturn(EVar("x"))>>),
                  SReturn(EVar("r"))>>),
           SReturn(EBin("+", ECall(ECall(EVar("w"), <<>>), <<>>),
                        ECall(EVar("f"), <<>>)))>>),
    SPrint(ECall(EVar("outer"), <<>>))>>

\* for (var i = 0; i < 2; i = i + 1) print i;
\* var n = 0;  for (; n < 1;) n = n + 1;
\* fun f() { for (n = 0;; n = n + 1) if (n > 0) return n; }  print f();
Loops ==
  <<SFor(SVar("i", ENum(0)), EBin("<", EVar("i"), ENum(2)),
         EAssign("i", EBin("+", EVar("i"), ENum(1))), SPrint(EVar("i"))),
    SVar("n", ENum(0)),
    SFor(SNone, EBin("<", EVar("n"), ENum(1)), ENone,
         SExpr(EAssign("n", EBin("+", EVar("n"), ENum(1))))),
    SFun("f", <<>>,
         <<SFor(SExpr(EAssign("n", ENum(0))), ENone,
                EAssign("n", EBin("+", EVar("n"), ENum(1))),
                SIf(EBin(">", EVar("n"), ENum(0)), SReturn(EVar("n"))))>>),
    SPrint(ECall(EVar("f"), <<>>))>>

\* return 1;   a compile error
TopLevelReturn == <<SReturn(ENum(1))>>

\* @ print 1; return 2;
Unexpected ==
  <<SError("Unexpected character @"), SPrint(ENum(1)), SReturn(ENum(2))>>

Programs ==
  <<BinaryProgram("-", ENum(1), ELit("nil")),
    BinaryProgram("*", ENum(1), ELit("nil")),
    BinaryProgram("/", ENum(1), ELit("nil")),
    BinaryProgram(">", ENum(1), ELit("nil")),
    BinaryProgram("<", EStr("a"), ENum(1)),
    BinaryProgram("-", ENum(3), ENum(1)),
    FieldProgram(<<>>, ELit("nil")),
    FieldProgram(<<>>, ELit("false")),
    FieldProgram(<<>>, ENum(0)),
    FieldProgram(<<>>, ENum(1)),
    FieldProgram(<<SFun("f", <<>>, <<>>)>>, ELit("nil")),
    FieldProgram(<<SFun("f", <<>>, <<>>)>>, ELit("true")),
    NativeProgram, NativeLoop, Recursion, RecursionArity,
    RecursionNative,
    Closures, Nested, Classes, Control, Loops, Interning, Escaping,
    TopLevelReturn, Unexpected>>

(***************************************************************************)
(* The scanner (main.ts) and Parser.advance (compiler.ts).  A source is a  *)
(* sequence of characters.  A scanner s is the record of the Scanner's     *)
(* fields; the loops that end with the input are operators, and the loop   *)
(* of string() is taken one iteration a step.                              *)
(***************************************************************************)
\* source[i] past the end of the string
Undefined == "undefined"

CharAt(source, i) ==
  IF i >= 0 /\ i < Len(source) THEN source[i + 1] ELSE Undefined

RECURSIVE Text(_)
Text(chars) == IF chars = <<>> THEN "" ELSE Head(chars) \o Text(Tail(chars))

\* String.prototype.substring for start <= end: both are clamped to the length
substring(source, indexStart, indexEnd) ==
  Text(SubSeq(source,
              (IF indexStart > Len(source) THEN Len(source) ELSE indexStart) + 1,
              IF indexEnd > Len(source) THEN Len(source) ELSE indexEnd))

Token(type, lexeme, line, column) ==
  [type |-> type, lexeme |-> lexeme, line |-> line, column |-> column]

\* const __ = syntheticToken("")
SyntheticToken == Token("IDENTIFIER", "", 0, 0)

KEYWORDS ==
  "and" :> "AND" @@ "class" :> "CLASS" @@ "else" :> "ELSE"
  @@ "false" :> "FALSE" @@ "for" :> "FOR" @@ "fun" :> "FUN" @@ "if" :> "IF"
  @@ "nil" :> "NIL" @@ "or" :> "OR" @@ "print" :> "PRINT"
  @@ "return" :> "RETURN" @@ "super" :> "SUPER" @@ "this" :> "THIS"
  @@ "true" :> "TRUE" @@ "var" :> "VAR" @@ "while" :> "WHILE"

\* KEYWORDS is an object literal: a read of a name it does not list goes to
\* Object.prototype, which has these (a function each, an object for __proto__)
ObjectPrototype ==
  {"constructor", "hasOwnProperty", "isPrototypeOf", "propertyIsEnumerable",
   "toLocaleString", "toString", "valueOf", "__proto__", "__defineGetter__",
   "__defineSetter__", "__lookupGetter__", "__lookupSetter__"}

Scanner(source) ==
  [source |-> source, start |-> 0, current |-> 0, line |-> 1, lineStart |-> 0]

done(s) == s.current >= Len(s.source)

\* Scanner.peek(offset)
peekChar(s, offset) == CharAt(s.source, s.current + offset)

\* Scanner.match: the scanner afterwards and the boolean returned
match(s, ch) ==
  IF done(s) \/ CharAt(s.source, s.current) # ch THEN [s |-> s, matched |-> FALSE]
  ELSE [s |-> [s EXCEPT !.current = @ + 1], matched |-> TRUE]

\* Scanner.error
errorToken(s, message) == Token("ERROR", message, s.line, s.current - s.lineStart)

token(s, type) ==
  Token(type, substring(s.source, s.start, s.current), s.line,
        s.current - s.lineStart)

nextLine(s) == [s EXCEPT !.line = @ + 1, !.lineStart = s.current]

\* while (!this.done() && this.peek() !== "\n") this.current++
RECURSIVE skipComment(_)
skipComment(s) ==
  IF ~done(s) /\ peekChar(s, 0) # "\n" THEN skipComment([s EXCEPT !.current = @ + 1])
  ELSE s

RECURSIVE skipWhiteSpace(_)
skipWhiteSpace(s) ==
  Let(peekChar(s, 0), LAMBDA ch :
    CASE ch = "\n" -> skipWhiteSpace([nextLine(s) EXCEPT !.current = @ + 1])
      [] ch \in {" ", "\r", "\t"} -> skipWhiteSpace([s EXCEPT !.current = @ + 1])
      [] ch = "/" -> (IF peekChar(s, 1) # "/" THEN s
                      ELSE skipWhiteSpace(skipComment(s)))
      [] OTHER -> s)

Digits == {"0", "1", "2", "3", "4", "5", "6", "7", "8", "9"}

Letters ==
  {"A", "B", "C", "D", "E", "F", "G", "H", "I", "J", "K", "L", "M", "N", "O",
   "P", "Q", "R", "S", "T", "U", "V", "W", "X", "Y", "Z",
   "a", "b", "c", "d", "e", "f", "g", "h", "i", "j", "k", "l", "m", "n", "o",
   "p", "q", "r", "s", "t", "u", "v", "w", "x", "y", "z"}

\* "0" <= ch && ch <= "9": false of undefined
isDigit(ch) == ch \in Digits

isAlpha(ch) == ch \in Letters \/ ch = "_"

\* while (this.isDigit(this.peek())) this.current++
RECURSIVE digits(_)
digits(s) ==
  IF isDigit(peekChar(s, 0)) THEN digits([s EXCEPT !.current = @ + 1]) ELSE s

\* Scanner.number: the scanner afterwards and the token returned
number(s) ==
  Let(digits(s), LAMBDA s1 :
    IF peekChar(s1, 0) = "." /\ isDigit(peekChar(s1, 1))
    THEN Let(digits([s1 EXCEPT !.current = @ + 1]), LAMBDA s2 :
           [s |-> s2, token |-> token(s2, "NUMBER")])
    ELSE [s |-> s1, token |-> token(s1, "NUMBER")])

\* while (this.isAlpha(this.peek()) || this.isDigit(this.peek())) this.current++
RECURSIVE alphaNumerics(_)
alphaNumerics(s) ==
  IF isAlpha(peekChar(s, 0)) \/ isDigit(peekChar(s, 0))
  THEN alphaNumerics([s EXCEPT !.current = @ + 1])
  ELSE s

\* KEYWORDS[text] || TokenType.IDENTIFIER
keywordType(text) ==
  IF text \in DOMAIN KEYWORDS THEN KEYWORDS[text]
  ELSE IF text \in ObjectPrototype THEN "Object.prototype." \o text
  ELSE "IDENTIFIER"

identifier(s) ==
  Let(alphaNumerics(s), LAMBDA s1 :
    [s |-> s1,
     token |-> token(s1, keywordType(substring(s1.source, s1.start, s1.current)))])

\* the cases of scanToken that return the token of one character
SingleCharacter ==
  "(" :> "LEFT_PAREN" @@ ")" :> "RIGHT_PAREN" @@ "{" :> "LEFT_BRACE"
  @@ "}" :> "RIGHT_BRACE" @@ "," :> "COMMA" @@ "." :> "DOT" @@ "-" :> "MINUS"
  @@ "+" :> "PLUS" @@ ";" :> "SEMICOLON" @@ "*" :> "STAR"

\* the cases of scanToken that look for "=" after the character
BeforeEqual ==
  "!" :> <<"BANG_EQUAL", "BANG">> @@ "=" :> <<"EQUAL_EQUAL", "EQUAL">>
  @@ "<" :> <<"LESS_EQUAL", "LESS">> @@ ">" :> <<"GREATER_EQUAL", "GREATER">>

\* no token yet: scanToken is in the loop of string()
NoToken == Token("", "", 0, 0)

\* Scanner.scanToken: the scanner afterwards and the token returned, or
\* NoToken where string() is entered.
scanToken(s0) ==
  Let(skipWhiteSpace(s0), LAMBDA s1 :
    Let([s1 EXCEPT !.start = s1.current], LAMBDA s2 :
      IF done(s2) THEN [s |-> s2, token |-> token(s2, "EOF")]
      ELSE Let(peekChar(s2, 0), LAMBDA ch :
        Let([s2 EXCEPT !.current = @ + 1], LAMBDA s :
          CASE ch \in DOMAIN SingleCharacter ->
                 [s |-> s, token |-> token(s, SingleCharacter[ch])]
            [] ch \in DOMAIN BeforeEqual ->
                 Let(match(s, "="), LAMBDA r :
                   [s |-> r.s,
                    token |-> token(r.s, BeforeEqual[ch][IF r.matched THEN 1 ELSE 2])])
            [] ch = "/" ->
                 Let(match(s, "/"), LAMBDA r1 :
                   Let(IF r1.matched THEN r1 ELSE match(s, "*"), LAMBDA r2 :
                     [s |-> r2.s,
                      token |-> IF r2.matched THEN errorToken(r2.s, "Missed comment")
                                ELSE token(r2.s, "SLASH")]))
            [] ch = "\"" -> [s |-> s, token |-> NoToken]
            [] isDigit(ch) -> number(s)
            [] isAlpha(ch) -> identifier(s)
            [] OTHER -> [s |-> s,
                         token |-> errorToken(s, "Unexpected character " \o ch)]))))

\* one iteration of the loop of Scanner.string
stringLoop(s) ==
  [(IF peekChar(s, 0) = "\n" THEN nextLine(s) ELSE s) EXCEPT !.current = @ + 1]

\* Scanner.string from the end of its loop
stringEnd(s) ==
  IF done(s) THEN [s |-> s, token |-> errorToken(s, "Unfinished string")]
  ELSE Let([s EXCEPT !.current = @ + 1], LAMBDA s1 :
         [s |-> s1, token |-> token(s1, "STRING")])

\* Not the source: errorAt without if (this.panicMode) return
errorAtAlways(p, at, message) ==
  [p EXCEPT !.panicMode = TRUE,
            !.hadError = TRUE,
            !.err = Append(@, "[line " \o ToString(at.line) \o ", column "
                              \o ToString(at.column) \o "] Error"
                              \o (IF at.type = "EOF" THEN " at end"
                                  ELSE IF at.type # "ERROR"
                                  THEN " at '" \o at.lexeme \o "': "
                                  ELSE "")
                              \o message)]

\* Parser.errorAt on a parser p (hadError, panicMode) and the console
errorAt(p, at, message) ==
  IF p.panicMode THEN p
  ELSE [p EXCEPT !.panicMode = TRUE,
                 !.hadError = TRUE,
                 !.err = Append(@, "[line " \o ToString(at.line) \o ", column "
                                   \o ToString(at.column) \o "] Error"
                                   \o (IF at.type = "EOF" THEN " at end"
                                       ELSE IF at.type # "ERROR"
                                       THEN " at '" \o at.lexeme \o "': "
                                       ELSE "")
                                   \o message)]

(***************************************************************************)
(* The process (main.ts): one VM, and interpret called on it once for a    *)
(* file and once a line in the REPL.                                       *)
(***************************************************************************)
\* no compilation is in progress
NoComp ==
  [comps |-> <<>>, klasses |-> <<>>, hadError |-> FALSE, panicMode |-> FALSE,
   todo |-> <<>>]

Init ==
  /\ heap = NewVM.heap
  /\ pool = NewVM.pool
  /\ globals = NewVM.globals
  /\ stack = NewVM.stack
  /\ frames = NewVM.frames
  /\ frame = NewVM.frame
  /\ openUpvalues = NewVM.openUpvalues
  /\ initString = NewVM.initString
  /\ out = NewVM.out
  /\ err = NewVM.err
  /\ status = "idle"
  /\ result = ""
  /\ runs = 0
  /\ comp = NoComp
  /\ sc = 0
  /\ tb = 0

\* the compilation in progress, on the heap and pool as they are now
CS ==
  [heap |-> heap, pool |-> pool, err |-> err, comps |-> comp.comps,
   klasses |-> comp.klasses, hadError |-> comp.hadError,
   panicMode |-> comp.panicMode, todo |-> comp.todo]

Compiling(cs) ==
  /\ heap' = cs.heap
  /\ pool' = cs.pool
  /\ err' = cs.err
  /\ comp' = [comps |-> cs.comps, klasses |-> cs.klasses,
              hadError |-> cs.hadError, panicMode |-> cs.panicMode,
              todo |-> cs.todo]
  /\ status' = "compiling"
  /\ UNCHANGED <<globals, stack, frames, frame, openUpvalues, initString, out,
                 result, sc, tb>>

\* vm.interpret(source): compile(source, pool) begins
Interpret ==
  /\ status = "idle"
  /\ runs < MaxRuns
  /\ \E i \in 1..Len(Programs) : Compiling(compile(heap, pool, err, Programs[i]))
  /\ runs' = runs + 1

\* the loop of compile: one declaration, or what follows a body within one
CompileStep ==
  /\ status = "compiling"
  /\ comp.todo # <<>>
  /\ Compiling(compileStep([CS EXCEPT !.todo = Tail(@)], Head(comp.todo)))
  /\ runs' = runs

\* the parser is at EOF: compile returns, and interpret goes on to the first
\* instruction of run
EndCompile ==
  /\ status = "compiling"
  /\ comp.todo = <<>>
  /\ LET c == endCompile(CS)
         r == interpret([M EXCEPT !.heap = c.cs.heap, !.pool = c.cs.pool,
                                  !.err = c.cs.err], c.func)
     IN /\ heap' = r.m.heap
        /\ pool' = r.m.pool
        /\ globals' = r.m.globals
        /\ stack' = r.m.stack
        /\ frames' = r.m.frames
        /\ frame' = r.m.frame
        /\ openUpvalues' = r.m.openUpvalues
        /\ initString' = r.m.initString
        /\ out' = r.m.out
        /\ err' = r.m.err
        /\ status' = IF r.returned = "" THEN "running" ELSE "idle"
        /\ result' = r.returned
  /\ comp' = NoComp
  /\ UNCHANGED <<runs, sc, tb>>

Next == Interpret \/ CompileStep \/ EndCompile \/ Step

Spec == Init /\ [][Next]_vars

(***************************************************************************)
(* The REPL (main.ts, repl): interpret is called on the one VM with line   *)
(* after line, whatever the lines before returned.                         *)
(***************************************************************************)
\* Bound of the model: the lines entered in one session
MaxLines == 5

\* c = 1;
\* ab = 1;
\* var f = 1;
\* c = 1 - nil;
\* f = 2; print f;
Lines ==
  <<<<SExpr(EAssign("c", ENum(1)))>>,
    <<SExpr(EAssign("ab", ENum(1)))>>,
    <<SVar("f", ENum(1))>>,
    <<SExpr(EAssign("c", EBin("-", ENum(1), ELit("nil"))))>>,
    <<SExpr(EAssign("f", ENum(2))), SPrint(EVar("f"))>>>>

\* vm.interpret(line): compile(line, pool) begins
InterpretLine ==
  /\ status = "idle"
  /\ runs < MaxLines
  /\ \E i \in 1..Len(Lines) : Compiling(compile(heap, pool, err, Lines[i]))
  /\ runs' = runs + 1

\* the cases of run that the code of these lines reaches
StepLine ==
  \/ OP_CONSTANT
  \/ OP_NIL
  \/ OP_POP
  \/ OP_GET_GLOBAL
  \/ OP_DEFINE_GLOBAL
  \/ OP_SET_GLOBAL
  \/ OP_SUBTRACT
  \/ OP_PRINT
  \/ OP_RETURN

NextRepl == InterpretLine \/ CompileStep \/ EndCompile \/ StepLine

SpecRepl == Init /\ [][NextRepl]_vars

\* Bound of the model: the lines entered in one session of closures
MaxSession == 4

\* var g;
\* fun mk() { var a = 1; fun r() { print a; } g = r; r(1); }
\* mk();
\* g();
SessionLines ==
  <<<<SVarNil("g")>>,
    <<SFun("mk", <<>>,
           <<SVar("a", ENum(1)),
             SFun("r", <<>>, <<SPrint(EVar("a"))>>),
             SExpr(EAssign("g", EVar("r"))),
             SExpr(ECall(EVar("r"), <<ENum(1)>>))>>)>>,
    <<SExpr(ECall(EVar("mk"), <<>>))>>,
    <<SExpr(ECall(EVar("g"), <<>>))>>>>

\* vm.interpret(line): compile(line, pool) begins
InterpretSession ==
  /\ status = "idle"
  /\ runs < MaxSession
  /\ \E i \in 1..Len(SessionLines) :
       Compiling(compile(heap, pool, err, SessionLines[i]))
  /\ runs' = runs + 1

\* the cases of run that the code of these lines reaches
StepSession ==
  \/ OP_CONSTANT
  \/ OP_NIL
  \/ OP_POP
  \/ OP_GET_LOCAL
  \/ OP_GET_GLOBAL
  \/ OP_DEFINE_GLOBAL
  \/ OP_SET_GLOBAL
  \/ OP_GET_UPVALUE
  \/ OP_PRINT
  \/ OP_CALL
  \/ OP_CLOSURE
  \/ OP_RETURN

NextSession == InterpretSession \/ CompileStep \/ EndCompile \/ StepSession

SpecSession == Init /\ [][NextSession]_vars

(***************************************************************************)
(* The limits of one function: sources with 256 and with 257 constants,    *)
(* locals and upvalues in one function, each interpreted on a new VM.      *)
(***************************************************************************)
\* the identifier with the given prefix and number
Name(prefix, i) == prefix \o ToString(i)

\* var <prefix>1; ... var <prefix>n;
Vars(prefix, n) == SubSeq([i \in 1..n |-> SVarNil(Name(prefix, i))], 1, n)

\* <prefix>1; ... <prefix>n;
Reads(prefix, n) == SubSeq([i \in 1..n |-> SExpr(EVar(Name(prefix, i)))], 1, n)

\* print 1; n times: n constants in the script's chunk
ManyConstants(n) == SubSeq([i \in 1..n |-> SPrint(ENum(1))], 1, n)

\* { var v1; ... var vn; print vn; }: n locals after the script's slot 0
ManyLocals(n) == <<SBlock(Vars("v", n) \o <<SPrint(EVar(Name("v", n)))>>)>>

\* fun outer() { var a1; ... var a128;
\*   fun mid() { var b1; ... ; fun f() { a1; ... a128; b1; ... } } }
\* with n variables in all: f has n upvalues
ManyUpvalues(n) ==
  <<SFun("outer", <<>>,
      Vars("a", 128)
        \o <<SFun("mid", <<>>,
               Vars("b", n - 128)
                 \o <<SFun("f", <<>>,
                          Reads("a", 128) \o Reads("b", n - 128))>>)>>)>>

LimitPrograms ==
  <<ManyConstants(256), ManyConstants(257), ManyLocals(255), ManyLocals(256),
    ManyUpvalues(256), ManyUpvalues(257)>>

\* vm.interpret(source) on the new VM: compile(source, pool) begins
InterpretLimit ==
  /\ status = "idle"
  /\ runs = 0
  /\ \E i \in 1..Len(LimitPrograms) :
       Compiling(compile(heap, pool, err, LimitPrograms[i]))
  /\ runs' = runs + 1

\* the cases of run that the code of these sources reaches
StepLimit ==
  \/ OP_CONSTANT
  \/ OP_NIL
  \/ OP_DEFINE_GLOBAL
  \/ OP_PRINT
  \/ OP_CLOSURE
  \/ OP_RETURN

NextLimits == InterpretLimit \/ CompileStep \/ EndCompile \/ StepLimit

SpecLimits == Init /\ [][NextLimits]_vars

(***************************************************************************)
(* runFile on one source of a library of Lox programs: sc is the name of   *)
(* the source, from the start of the process on.                           *)
(***************************************************************************)
\* fun mk() { var i = 0; fun inc() { i = i + 1; return i; } return inc; }
\* var c = mk(); var d = mk();
\* print c(); print c(); print d(); print c();
Counter ==
  <<SFun("mk", <<>>,
         <<SVar("i", ENum(0)),
           SFun("inc", <<>>,
                <<SExpr(EAssign("i", EBin("+", EVar("i"), ENum(1)))),
                  SReturn(EVar("i"))>>),
           SReturn(EVar("inc"))>>),
    SVar("c", ECall(EVar("mk"), <<>>)), SVar("d", ECall(EVar("mk"), <<>>)),
    SPrint(ECall(EVar("c"), <<>>)), SPrint(ECall(EVar("c"), <<>>)),
    SPrint(ECall(EVar("d"), <<>>)), SPrint(ECall(EVar("c"), <<>>))>>

\* var a = 1;
\* { fun f() { print a; }  f();  var a = 2;  f(); }
ShowA ==
  <<SVar("a", ENum(1)),
    SBlock(<<SFun("f", <<>>, <<SPrint(EVar("a"))>>),
             SExpr(ECall(EVar("f"), <<>>)),
             SVar("a", ENum(2)),
             SExpr(ECall(EVar("f"), <<>>))>>)>>

\* f(<left>) <op> f(<right>)
Either(left, right) ==
  EOr(ECall(EVar("f"), <<left>>), ECall(EVar("f"), <<right>>))
Both(left, right) ==
  EAnd(ECall(EVar("f"), <<left>>), ECall(EVar("f"), <<right>>))

\* fun f(n) { print n; return n; }
\* print f(1) or f(2);      print f(nil) or f(2);   print f(false) or f(nil);
\* print f(false) and f(2); print f(nil) and f(2);  print f(0) and f(2);
Logic ==
  <<SFun("f", <<"n">>, <<SPrint(EVar("n")), SReturn(EVar("n"))>>),
    SPrint(Either(ENum(1), ENum(2))),
    SPrint(Either(ELit("nil"), ENum(2))),
    SPrint(Either(ELit("false"), ELit("nil"))),
    SPrint(Both(ELit("false"), ENum(2))),
    SPrint(Both(ELit("nil"), ENum(2))),
    SPrint(Both(ENum(0), ENum(2)))>>

\* fun f(n) { print n; return n; }
\* { var a = 7;
\*   for (var i = f(0); f(i + 10) < 12; i = f(i + 21) - 20) print "b";
\*   for (var k = f(5); f(false); f(6)) print "c";
\*   print a; }
ForOrder ==
  <<SFun("f", <<"n">>, <<SPrint(EVar("n")), SReturn(EVar("n"))>>),
    SBlock(
      <<SVar("a", ENum(7)),
        SFor(SVar("i", ECall(EVar("f"), <<ENum(0)>>)),
             EBin("<", ECall(EVar("f"), <<EBin("+", EVar("i"), ENum(10))>>),
                  ENum(12)),
             EAssign("i", EBin("-", ECall(EVar("f"),
                                          <<EBin("+", EVar("i"), ENum(21))>>),
                               ENum(20))),
             SPrint(EStr("b"))),
        SFor(SVar("k", ECall(EVar("f"), <<ENum(5)>>)),
             ECall(EVar("f"), <<ELit("false")>>),
             ECall(EVar("f"), <<ENum(6)>>),
             SPrint(EStr("c"))),
        SPrint(EVar("a"))>>)>>

\* class A { m() { print 1; } n() { print 2; } }
\* class B < A { n() { print 3; } h() { print 4; } }
\* var b = B(); b.m(); b.n(); b.h(); A().n();
Inherit ==
  <<SClass("A", <<SFun("m", <<>>, <<SPrint(ENum(1))>>),
                  SFun("n", <<>>, <<SPrint(ENum(2))>>)>>),
    SSubclass("B", "A", <<SFun("n", <<>>, <<SPrint(ENum(3))>>),
                          SFun("h", <<>>, <<SPrint(ENum(4))>>)>>),
    SVar("b", ECall(EVar("B"), <<>>)),
    SExpr(EInvoke(EVar("b"), "m", <<>>)), SExpr(EInvoke(EVar("b"), "n", <<>>)),
    SExpr(EInvoke(EVar("b"), "h", <<>>)),
    SExpr(EInvoke(ECall(EVar("A"), <<>>), "n", <<>>))>>

\* var c = 1; class B < c { m() { print 1; } }  print 2;
NotAClass ==
  <<SVar("c", ENum(1)),
    SSubclass("B", "c", <<SFun("m", <<>>, <<SPrint(ENum(1))>>)>>),
    SPrint(ENum(2))>>

\* class A { init() { this.f = 1; } m() {} }
\* class B { init(n) { if (n) return; this.f = 2; } }
\* fun f() {}  fun g() { return; }
\* print f(); print g(); print A(); print A().m();
\* print B(true); print B(false).f; print A().init();
Returns ==
  <<SClass("A", <<SFun("init", <<>>, <<SExpr(ESet(EThis, "f", ENum(1)))>>),
                  SFun("m", <<>>, <<>>)>>),
    SClass("B", <<SFun("init", <<"n">>,
                       <<SIf(EVar("n"), SReturnNil),
                         SExpr(ESet(EThis, "f", ENum(2)))>>)>>),
    SFun("f", <<>>, <<>>), SFun("g", <<>>, <<SReturnNil>>),
    SPrint(ECall(EVar("f"), <<>>)), SPrint(ECall(EVar("g"), <<>>)),
    SPrint(ECall(EVar("A"), <<>>)),
    SPrint(EInvoke(ECall(EVar("A"), <<>>), "m", <<>>)),
    SPrint(ECall(EVar("B"), <<ELit("true")>>)),
    SPrint(EGet(ECall(EVar("B"), <<ELit("false")>>), "f")),
    SPrint(EInvoke(ECall(EVar("A"), <<>>), "init", <<>>))>>

\* class A { m(n) {} }
OneParameter == SClass("A", <<SFun("m", <<"n">>, <<>>)>>)

\* fun f(n) {}  f();  print 1;
ArityClosure ==
  <<SFun("f", <<"n">>, <<>>), SExpr(ECall(EVar("f"), <<>>)), SPrint(ENum(1))>>

\* class A { m(n) {} }  var b = A().m;  b();  print 1;
ArityBound ==
  <<OneParameter, SVar("b", EGet(ECall(EVar("A"), <<>>), "m")),
    SExpr(ECall(EVar("b"), <<>>)), SPrint(ENum(1))>>

\* class A { m(n) {} }  A().m(1, 2);  print 1;
ArityInvoke ==
  <<OneParameter,
    SExpr(EInvoke(ECall(EVar("A"), <<>>), "m", <<ENum(1), ENum(2)>>)),
    SPrint(ENum(1))>>

\* class A { m(n) {} }  class B < A { h() { super.m(); } }  B().h();  print 1;
AritySuper ==
  <<OneParameter,
    SSubclass("B", "A", <<SFun("h", <<>>, <<SExpr(ESuperInvoke("m", <<>>))>>)>>),
    SExpr(EInvoke(ECall(EVar("B"), <<>>), "h", <<>>)), SPrint(ENum(1))>>

\* class A { init(n) {} }  A();  print 1;
ArityInit ==
  <<SClass("A", <<SFun("init", <<"n">>, <<>>)>>),
    SExpr(ECall(EVar("A"), <<>>)), SPrint(ENum(1))>>

\* class A {}  A(1);  print 1;
ArityNoInit ==
  <<SClass("A", <<>>), SExpr(ECall(EVar("A"), <<ENum(1)>>)), SPrint(ENum(1))>>

\* { var a = 1; { var a = 2; print a; a = 3; } print a; }
Shadow ==
  <<SBlock(<<SVar("a", ENum(1)),
             SBlock(<<SVar("a", ENum(2)), SPrint(EVar("a")),
                      SExpr(EAssign("a", ENum(3)))>>),
             SPrint(EVar("a"))>>)>>

\* { var a = 1; var a = 2; }  print 1;
Redeclare ==
  <<SBlock(<<SVar("a", ENum(1)), SVar("a", ENum(2))>>), SPrint(ENum(1))>>

\* { var a = 1; { var a = a; } }  print 1;
OwnInitializer ==
  <<SBlock(<<SVar("a", ENum(1)), SBlock(<<SVar("a", EVar("a"))>>)>>),
    SPrint(ENum(1))>>

\* var g; var h;
\* fun mk() { var a = 1; fun inc() { a = a + 1; } fun r() { print a; }
\*            g = inc; h = r; }
\* mk(); h(); g(); { var k = 9; h(); }
Shared ==
  <<SVarNil("g"), SVarNil("h"),
    SFun("mk", <<>>,
         <<SVar("a", ENum(1)),
           SFun("inc", <<>>, <<SExpr(EAssign("a", EBin("+", EVar("a"), ENum(1))))>>),
           SFun("r", <<>>, <<SPrint(EVar("a"))>>),
           SExpr(EAssign("g", EVar("inc"))), SExpr(EAssign("h", EVar("r")))>>),
    SExpr(ECall(EVar("mk"), <<>>)), SExpr(ECall(EVar("h"), <<>>)),
    SExpr(ECall(EVar("g"), <<>>)),
    SBlock(<<SVar("k", ENum(9)), SExpr(ECall(EVar("h"), <<>>))>>)>>

\* class A { m(n) { print n; } }   fun f(n) { print n + 1; }   var a = A();
\* a.f = f; a.f(1);   a.m(2);   a.m = f; a.m(3);   a.c = clock; a.c();
\* a.B = A; a.B();   a.k = nil; a.k();
InvokeField ==
  <<SClass("A", <<SFun("m", <<"n">>, <<SPrint(EVar("n"))>>)>>),
    SFun("f", <<"n">>, <<SPrint(EBin("+", EVar("n"), ENum(1)))>>),
    SVar("a", ECall(EVar("A"), <<>>)),
    SExpr(ESet(EVar("a"), "f", EVar("f"))),
    SExpr(EInvoke(EVar("a"), "f", <<ENum(1)>>)),
    SExpr(EInvoke(EVar("a"), "m", <<ENum(2)>>)),
    SExpr(ESet(EVar("a"), "m", EVar("f"))),
    SExpr(EInvoke(EVar("a"), "m", <<ENum(3)>>)),
    SExpr(ESet(EVar("a"), "c", EVar("clock"))),
    SExpr(EInvoke(EVar("a"), "c", <<>>)),
    SExpr(ESet(EVar("a"), "B", EVar("A"))),
    SExpr(EInvoke(EVar("a"), "B", <<>>)),
    SExpr(ESet(EVar("a"), "k", ELit("nil"))),
    SExpr(EInvoke(EVar("a"), "k", <<>>))>>

\* class A { m(n) { print n; } }   var a = A();
\* a.m = false; a.m(1);   a.m = 1; a.m(1);
InvokeFalsy ==
  <<SClass("A", <<SFun("m", <<"n">>, <<SPrint(EVar("n"))>>)>>),
    SVar("a", ECall(EVar("A"), <<>>)),
    SExpr(ESet(EVar("a"), "m", ELit("false"))),
    SExpr(EInvoke(EVar("a"), "m", <<ENum(1)>>)),
    SExpr(ESet(EVar("a"), "m", ENum(1))),
    SExpr(EInvoke(EVar("a"), "m", <<ENum(1)>>))>>

\* var a = 1; a.m();
InvokeNumber ==
  <<SVar("a", ENum(1)), SExpr(EInvoke(EVar("a"), "m", <<>>))>>

\* class A { m() { print 1; return this; } }
\* class B < A { m() { print 2; return this; }
\*               t() { var f = super.m; print super.m() == this;
\*                     print f() == this; } }
\* class C < B { m() { print 3; return this; } }
\* B().t();  C().t();
Dispatch ==
  <<SClass("A", <<SFun("m", <<>>, <<SPrint(ENum(1)), SReturn(EThis)>>)>>),
    SSubclass("B", "A",
              <<SFun("m", <<>>, <<SPrint(ENum(2)), SReturn(EThis)>>),
                SFun("t", <<>>,
                     <<SVar("f", ESuper("m")),
                       SPrint(EBin("==", ESuperInvoke("m", <<>>), EThis)),
                       SPrint(EBin("==", ECall(EVar("f"), <<>>), EThis))>>)>>),
    SSubclass("C", "B", <<SFun("m", <<>>, <<SPrint(ENum(3)), SReturn(EThis)>>)>>),
    SExpr(EInvoke(ECall(EVar("B"), <<>>), "t", <<>>)),
    SExpr(EInvoke(ECall(EVar("C"), <<>>), "t", <<>>))>>

AritySources ==
  {"ArityClosure", "ArityBound", "ArityInvoke", "AritySuper", "ArityInit",
   "ArityNoInit"}

LoxSources ==
  {"Counter", "ShowA", "Logic", "ForOrder", "Inherit", "NotAClass", "Returns",
   "Shadow", "Redeclare", "OwnInitializer", "Control", "Classes"}
    \cup AritySources

\* the sources of the suite: the library and the sources added to it
SuiteSources ==
  LoxSources
    \cup {"Shared", "InvokeField", "InvokeFalsy", "InvokeNumber", "Dispatch"}

\* the text of the source file
SourceText(name) ==
  CASE name = "Counter" -> Counter
    [] name = "ShowA" -> ShowA
    [] name = "Logic" -> Logic
    [] name = "ForOrder" -> ForOrder
    [] name = "Inherit" -> Inherit
    [] name = "NotAClass" -> NotAClass
    [] name = "Returns" -> Returns
    [] name = "ArityClosure" -> ArityClosure
    [] name = "ArityBound" -> ArityBound
    [] name = "ArityInvoke" -> ArityInvoke
    [] name = "AritySuper" -> AritySuper
    [] name = "ArityInit" -> ArityInit
    [] name = "ArityNoInit" -> ArityNoInit
    [] name = "Shadow" -> Shadow
    [] name = "Redeclare" -> Redeclare
    [] name = "OwnInitializer" -> OwnInitializer
    [] name = "Control" -> Control
    [] name = "Classes" -> Classes
    [] name = "Shared" -> Shared
    [] name = "InvokeField" -> InvokeField
    [] name = "InvokeFalsy" -> InvokeFalsy
    [] name = "InvokeNumber" -> InvokeNumber
    [] name = "Dispatch" -> Dispatch
    [] name = "Binary" -> BinaryProgram("-", ENum(1), ELit("nil"))

InitLox ==
  /\ heap = NewVM.heap
  /\ pool = NewVM.pool
  /\ globals = NewVM.globals
  /\ stack = NewVM.stack
  /\ frames = NewVM.frames
  /\ frame = NewVM.frame
  /\ openUpvalues = NewVM.openUpvalues
  /\ initString = NewVM.initString
  /\ out = NewVM.out
  /\ err = NewVM.err
  /\ status = "idle"
  /\ result = ""
  /\ runs = 0
  /\ comp = NoComp
  /\ sc \in LoxSources
  /\ tb = 0

\* vm.interpret(source) on the new VM: compile(source, pool) begins
InterpretLox ==
  /\ status = "idle"
  /\ runs = 0
  /\ Compiling(compile(heap, pool, err, SourceText(sc)))
  /\ runs' = runs + 1

NextLox == InterpretLox \/ CompileStep \/ EndCompile \/ Step

SpecLox == InitLox /\ [][NextLox]_vars

\* runFile on one source of the suite
InitSuite ==
  /\ heap = NewVM.heap
  /\ pool = NewVM.pool
  /\ globals = NewVM.globals
  /\ stack = NewVM.stack
  /\ frames = NewVM.frames
  /\ frame = NewVM.frame
  /\ openUpvalues = NewVM.openUpvalues
  /\ initString = NewVM.initString
  /\ out = NewVM.out
  /\ err = NewVM.err
  /\ status = "idle"
  /\ result = ""
  /\ runs = 0
  /\ comp = NoComp
  /\ sc \in SuiteSources
  /\ tb = 0

SpecSuite == InitSuite /\ [][NextLox]_vars

(***************************************************************************)
(* The process in file mode (main.ts): sc is the process, its arguments    *)
(* (names of sources) and its exit status once it has exited.              *)
(***************************************************************************)
\* Bound of the model: the number of arguments.
MaxArgs == 2

\* the process has not exited
Running == -1

\* the status of a process that ends on an uncaught exception
UNCAUGHT == 1

\* Deno.args where there is at least one argument
Arguments ==
  UNION {[1..n -> LoxSources \cup {"Binary"}] : n \in 1..MaxArgs}

InitMain ==
  /\ heap = NewVM.heap
  /\ pool = NewVM.pool
  /\ globals = NewVM.globals
  /\ stack = NewVM.stack
  /\ frames = NewVM.frames
  /\ frame = NewVM.frame
  /\ openUpvalues = NewVM.openUpvalues
  /\ initString = NewVM.initString
  /\ out = NewVM.out
  /\ err = NewVM.err
  /\ status = "idle"
  /\ result = ""
  /\ runs = 0
  /\ comp = NoComp
  /\ \E args \in Arguments : sc = [args |-> args, exit |-> Running]
  /\ tb = 0

\* Deno.exit(code), or the end of the process with that status
Exit(code, console) ==
  /\ sc' = [sc EXCEPT !.exit = code]
  /\ status' = "exited"
  /\ err' = console
  /\ UNCHANGED <<heap, pool, globals, stack, frames, frame, openUpvalues,
                 initString, result, out, runs, comp, tb>>

\* Not the source: a runFile that never calls Deno.exit.
exitNever(r) == 0

\* the rest of runFile from the return of vm.interpret(source) with r
exitStatus(r) ==
  IF r = "COMPILE_ERROR" THEN 65
  ELSE IF r = "RUNTIME_ERROR" THEN 70
  ELSE 0

\* Deno.args.length is neither 0 nor 1
Usage ==
  /\ status = "idle"
  /\ runs = 0
  /\ Len(sc.args) > 1
  /\ Exit(64, Append(err, "Usage: main [path]\n"))

\* runFile(Deno.args[0]) up to compile(source, pool)
RunFile ==
  /\ status = "idle"
  /\ runs = 0
  /\ Len(sc.args) = 1
  /\ Compiling(compile(heap, pool, err, SourceText(sc.args[1])))
  /\ runs' = runs + 1

\* vm.interpret(source) has returned
Returned ==
  /\ status = "idle"
  /\ runs > 0
  /\ Exit(exitStatus(result), err)

\* vm.interpret(source) has thrown: the promise of runFile is rejected
Uncaught ==
  /\ status = "crashed"
  /\ Exit(UNCAUGHT, err)

NextMain ==
  Usage \/ RunFile \/ CompileStep \/ EndCompile \/ Step \/ Returned \/ Uncaught

SpecMain == InitMain /\ [][NextMain]_vars

(***************************************************************************)
(* The token stream of a compilation: new Parser(scanner) and the calls    *)
(* of Parser.advance that follow, up to the one that compile's             *)
(* match(EOF) makes at the end of input.                                   *)
(***************************************************************************)
\* Bounds of the model: the length of a source, and how far past the end
\* of the source the model follows the scanner.
MaxSource == 3
MaxOverrun == 2

Alphabet == {"\"", "a", "1", ".", "/", "\n", "=", "@"}

Sources == UNION {[1..n -> Alphabet] : n \in 0..MaxSource}

InitScan ==
  /\ heap = <<>>
  /\ pool = EmptyTable
  /\ globals = EmptyTable
  /\ stack = <<>>
  /\ frames = <<>>
  /\ frame = NoFrame
  /\ openUpvalues = 0
  /\ initString = 0
  /\ out = <<>>
  /\ err = <<>>
  /\ status = "scanning"
  /\ result = ""
  /\ runs = 0
  /\ comp = NoComp
  /\ \E source \in Sources :
       sc = [scanner |-> Scanner(source), at |-> "parser",
             current |-> SyntheticToken, previous |-> SyntheticToken,
             hadError |-> FALSE, panicMode |-> FALSE]
  /\ tb = 0

Scanning(next, console) ==
  /\ sc' = next
  /\ err' = console
  /\ UNCHANGED <<heap, pool, globals, stack, frames, frame, openUpvalues,
                 initString, status, result, out, runs, comp, tb>>

\* this.current = this.scanner.scanToken() has returned r.token: the rest
\* of the iteration of Parser.advance
Scanned(r) ==
  IF r.token.type # "ERROR"
  THEN Scanning([sc EXCEPT !.scanner = r.s, !.current = r.token, !.at = "parser"],
                err)
  ELSE Let(errorAt([panicMode |-> sc.panicMode, hadError |-> sc.hadError,
                    err |-> err], r.token, r.token.lexeme),
           LAMBDA p :
             Scanning([sc EXCEPT !.scanner = r.s, !.current = r.token,
                                 !.at = "scanToken", !.hadError = p.hadError,
                                 !.panicMode = p.panicMode],
                      p.err))

\* Parser.advance is called, by the constructor first: previous = current
ParserAdvance ==
  /\ status = "scanning"
  /\ sc.at = "parser"
  /\ sc.previous.type # "EOF"
  /\ Scanning([sc EXCEPT !.previous = sc.current, !.at = "scanToken"], err)

\* scanToken is called, and returns unless it enters the loop of string()
ScanToken ==
  /\ status = "scanning"
  /\ sc.at = "scanToken"
  /\ Let(scanToken(sc.scanner), LAMBDA r :
       IF r.token = NoToken
       THEN Scanning([sc EXCEPT !.scanner = r.s, !.at = "string"], err)
       ELSE Scanned(r))

\* while (this.peek() !== '"'): one more iteration
StringLoop ==
  /\ status = "scanning"
  /\ sc.at = "string"
  /\ peekChar(sc.scanner, 0) # "\""
  /\ sc.scanner.current < Len(sc.scanner.source) + MaxOverrun
  /\ Scanning([sc EXCEPT !.scanner = stringLoop(@)], err)

\* the loop of string() has ended
StringEnd ==
  /\ status = "scanning"
  /\ sc.at = "string"
  /\ peekChar(sc.scanner, 0) = "\""
  /\ Scanned(stringEnd(sc.scanner))

NextScan == ParserAdvance \/ ScanToken \/ StringLoop \/ StringEnd

SpecScan == InitScan /\ [][NextScan]_vars

(***************************************************************************)
(* The scanner on one word of letters, digits and underscores (main.ts)   *)
(* and the rule that the compiler looks up for the token (compiler.ts):   *)
(* sc is the scanner, the token it returned and the rule found.           *)
(***************************************************************************)
\* enum TokenType
TokenType ==
  {"LEFT_PAREN", "RIGHT_PAREN", "LEFT_BRACE", "RIGHT_BRACE", "COMMA",
   "DOT", "MINUS", "PLUS", "SEMICOLON", "SLASH", "STAR", "BANG",
   "BANG_EQUAL", "EQUAL", "EQUAL_EQUAL", "GREATER", "GREATER_EQUAL",
   "LESS", "LESS_EQUAL", "IDENTIFIER", "STRING", "NUMBER", "AND", "CLASS",
   "ELSE", "FALSE", "FUN", "FOR", "IF", "NIL", "OR", "PRINT", "RETURN",
   "SUPER", "THIS", "TRUE", "VAR", "WHILE", "ERROR", "EOF"}

\* Compiler.rules: prefix, infix and precedence for a token type
rules ==
  "LEFT_PAREN" :> <<"grouping", "call", "CALL">>
  @@ "RIGHT_PAREN" :> <<"null", "null", "NONE">>
  @@ "LEFT_BRACE" :> <<"null", "null", "NONE">>
  @@ "RIGHT_BRACE" :> <<"null", "null", "NONE">>
  @@ "COMMA" :> <<"null", "null", "NONE">>
  @@ "DOT" :> <<"null", "dot", "CALL">>
  @@ "MINUS" :> <<"unary", "binary", "TERM">>
  @@ "PLUS" :> <<"null", "binary", "TERM">>
  @@ "SEMICOLON" :> <<"null", "null", "NONE">>
  @@ "SLASH" :> <<"null", "binary", "FACTOR">>
  @@ "STAR" :> <<"null", "binary", "FACTOR">>
  @@ "BANG" :> <<"unary", "null", "NONE">>
  @@ "BANG_EQUAL" :> <<"null", "binary", "EQUALITY">>
  @@ "EQUAL" :> <<"null", "null", "NONE">>
  @@ "EQUAL_EQUAL" :> <<"null", "binary", "EQUALITY">>
  @@ "GREATER" :> <<"null", "binary", "COMPARISON">>
  @@ "GREATER_EQUAL" :> <<"null", "binary", "COMPARISON">>
  @@ "LESS" :> <<"null", "binary", "COMPARISON">>
  @@ "LESS_EQUAL" :> <<"null", "binary", "COMPARISON">>
  @@ "IDENTIFIER" :> <<"variable", "null", "NONE">>
  @@ "STRING" :> <<"string", "null", "NONE">>
  @@ "NUMBER" :> <<"number", "null", "NONE">>
  @@ "AND" :> <<"null", "and_", "AND">>
  @@ "CLASS" :> <<"null", "null", "NONE">>
  @@ "ELSE" :> <<"null", "null", "NONE">>
  @@ "FALSE" :> <<"literal", "null", "NONE">>
  @@ "FOR" :> <<"null", "null", "NONE">>
  @@ "FUN" :> <<"null", "null", "NONE">>
  @@ "IF" :> <<"null", "null", "NONE">>
  @@ "NIL" :> <<"literal", "null", "NONE">>
  @@ "OR" :> <<"null", "or_", "OR">>
  @@ "PRINT" :> <<"null", "null", "NONE">>
  @@ "RETURN" :> <<"null", "null", "NONE">>
  @@ "SUPER" :> <<"super_", "null", "NONE">>
  @@ "THIS" :> <<"this_", "null", "NONE">>
  @@ "TRUE" :> <<"literal", "null", "NONE">>
  @@ "VAR" :> <<"null", "null", "NONE">>
  @@ "WHILE" :> <<"null", "null", "NONE">>
  @@ "ERROR" :> <<"null", "null", "NONE">>
  @@ "EOF" :> <<"null", "null", "NONE">>

\* the words of KEYWORDS
KeywordWords ==
  {<<"a", "n", "d">>,
   <<"c", "l", "a", "s", "s">>,
   <<"e", "l", "s", "e">>,
   <<"f", "a", "l", "s", "e">>,
   <<"f", "o", "r">>,
   <<"f", "u", "n">>,
   <<"i", "f">>,
   <<"n", "i", "l">>,
   <<"o", "r">>,
   <<"p", "r", "i", "n", "t">>,
   <<"r", "e", "t", "u", "r", "n">>,
   <<"s", "u", "p", "e", "r">>,
   <<"t", "h", "i", "s">>,
   <<"t", "r", "u", "e">>,
   <<"v", "a", "r">>,
   <<"w", "h", "i", "l", "e">>}

\* names of properties of Object.prototype
PrototypeWords ==
  {<<"c", "o", "n", "s", "t", "r", "u", "c", "t", "o", "r">>,
   <<"h", "a", "s", "O", "w", "n", "P", "r", "o", "p", "e", "r", "t", "y">>,
   <<"i", "s", "P", "r", "o", "t", "o", "t", "y", "p", "e", "O", "f">>,
   <<"p", "r", "o", "p", "e", "r", "t", "y", "I", "s", "E", "n", "u", "m", "e", "r", "a", "b", "l", "e">>,
   <<"t", "o", "L", "o", "c", "a", "l", "e", "S", "t", "r", "i", "n", "g">>,
   <<"t", "o", "S", "t", "r", "i", "n", "g">>,
   <<"v", "a", "l", "u", "e", "O", "f">>,
   <<"_", "_", "p", "r", "o", "t", "o", "_", "_">>,
   <<"_", "_", "d", "e", "f", "i", "n", "e", "G", "e", "t", "t", "e", "r", "_", "_">>,
   <<"_", "_", "d", "e", "f", "i", "n", "e", "S", "e", "t", "t", "e", "r", "_", "_">>,
   <<"_", "_", "l", "o", "o", "k", "u", "p", "G", "e", "t", "t", "e", "r", "_", "_">>,
   <<"_", "_", "l", "o", "o", "k", "u", "p", "S", "e", "t", "t", "e", "r", "_", "_">>}

\* other words
OtherWords ==
  {<<"a">>, <<"_">>, <<"x", "1">>, <<"A", "n">>, <<"p", "r", "i", "n">>, <<"s", "u", "p", "e">>}

\* what follows the word in the lexeme: nothing, a letter, a digit, an
\* underscore
Suffixes == {<<>>, <<"s">>, <<"1">>, <<"_">>}

Lexemes ==
  {w \o x : w \in KeywordWords \cup PrototypeWords \cup OtherWords,
            x \in Suffixes}

InitLexeme ==
  /\ heap = <<>>
  /\ pool = EmptyTable
  /\ globals = EmptyTable
  /\ stack = <<>>
  /\ frames = <<>>
  /\ frame = NoFrame
  /\ openUpvalues = 0
  /\ initString = 0
  /\ out = <<>>
  /\ err = <<>>
  /\ status = "lexing"
  /\ result = ""
  /\ runs = 0
  /\ comp = NoComp
  /\ \E source \in Lexemes :
       sc = [scanner |-> Scanner(source), at |-> "start", token |-> NoToken,
             rule |-> <<>>]
  /\ tb = 0

Lexing(next) ==
  /\ status = "lexing"
  /\ sc' = next
  /\ UNCHANGED <<heap, pool, globals, stack, frames, frame, openUpvalues,
                 initString, status, result, out, err, runs, comp, tb>>

\* this.current = this.scanner.scanToken()
ScanLexeme ==
  /\ sc.at = "start"
  /\ Let(scanToken(sc.scanner), LAMBDA r :
       Lexing([sc EXCEPT !.scanner = r.s, !.token = r.token, !.at = "scanned"]))

\* Not the source: a rule table with an entry for whatever is asked.
getAnyRule(type) == <<"variable", "null", "NONE">>

\* Compiler.getRule: this.rules[type], undefined when the table has no
\* such entry
getRule(type) == IF type \in DOMAIN rules THEN rules[type] ELSE <<>>

\* parsePrecedence: this.getRule(this.parser.previous.type)[0], a TypeError
\* when getRule returned undefined
PrefixRule ==
  /\ sc.at = "scanned"
  /\ Let(getRule(sc.token.type), LAMBDA rule :
       Lexing([sc EXCEPT !.rule = rule,
                         !.at = IF rule = <<>> THEN "TypeError" ELSE "ruled"]))

NextLexeme == ScanLexeme \/ PrefixRule

SpecLexeme == InitLexeme /\ [][NextLexeme]_vars

(***************************************************************************)
(* The Parser by itself (compiler.ts): the Compiler calls advance, reports *)
(* errors at the previous or at the current token, and at the end of       *)
(* every declaration calls synchronize when the parser is in panic mode.   *)
(* The Compiler is any client: it makes these calls in any order.          *)
(* sc.at is the last call made.                                            *)
(***************************************************************************)
\* Bounds of the model: the number of words of a source, and the number of
\* errors the Compiler reports.
MaxWords == 3
MaxErrors == 2

Words ==
  {<<";">>, <<"@">>, <<"a", " ">>, <<"i", "f", " ">>,
   <<"p", "r", "i", "n", "t", " ">>}

RECURSIVE Texts(_)
Texts(n) ==
  IF n = 0 THEN {<<>>}
  ELSE Texts(n - 1) \cup {t \o w : t \in Texts(n - 1), w \in Words}

\* the parser and the console as one record, for errorAt
ParserOf(p, console) ==
  [scanner |-> p.scanner, at |-> p.at, current |-> p.current,
   previous |-> p.previous, hadError |-> p.hadError,
   panicMode |-> p.panicMode, err |-> console]

\* Parser.advance after this.previous = this.current: the loop
RECURSIVE advanceLoop(_)
advanceLoop(p) ==
  Let(scanToken(p.scanner), LAMBDA r :
    Let([p EXCEPT !.scanner = r.s, !.current = r.token], LAMBDA p1 :
      IF r.token.type # "ERROR" THEN p1
      ELSE advanceLoop(errorAt(p1, r.token, r.token.lexeme))))

\* Parser.advance
advanceToken(p) == advanceLoop([p EXCEPT !.previous = p.current])

\* the token types at which synchronize stops
StatementStarts ==
  {"CLASS", "FUN", "VAR", "FOR", "IF", "WHILE", "PRINT", "RETURN"}

\* Parser.synchronize: the loop
RECURSIVE synchronizeLoop(_)
synchronizeLoop(p) ==
  IF p.current.type = "EOF" THEN p
  ELSE IF p.previous.type = "SEMICOLON" THEN p
  ELSE IF p.current.type \in StatementStarts THEN p
  ELSE synchronizeLoop(advanceToken(p))

\* Parser.synchronize
synchronizeTokens(p) == synchronizeLoop([p EXCEPT !.panicMode = FALSE])

InitParse ==
  /\ heap = <<>>
  /\ pool = EmptyTable
  /\ globals = EmptyTable
  /\ stack = <<>>
  /\ frames = <<>>
  /\ frame = NoFrame
  /\ openUpvalues = 0
  /\ initString = 0
  /\ out = <<>>
  /\ err = <<>>
  /\ status = "parsing"
  /\ result = ""
  /\ runs = 0
  /\ comp = NoComp
  /\ \E source \in Texts(MaxWords) :
       sc = [scanner |-> Scanner(source), at |-> "new",
             current |-> SyntheticToken, previous |-> SyntheticToken,
             hadError |-> FALSE, panicMode |-> FALSE]
  /\ tb = 0

\* the parser is p afterwards, and the call made was made
Parsing(p, made) ==
  Scanning([scanner |-> p.scanner, at |-> made, current |-> p.current,
            previous |-> p.previous, hadError |-> p.hadError,
            panicMode |-> p.panicMode],
           p.err)

\* this.advance(), by the constructor first
ParseAdvance ==
  /\ status = "parsing"
  /\ Parsing(advanceToken(ParserOf(sc, err)), "advance")

\* this.error(message) or this.errorAtCurrent(message), of the Compiler
ReportError ==
  /\ status = "parsing"
  /\ sc.at # "new"
  /\ sc.panicMode \/ Len(err) < MaxErrors
  /\ \E at \in {sc.previous, sc.current} :
       Parsing(errorAt(ParserOf(sc, err), at, "Expect expression."), "error")

\* the end of declaration(): if (this.parser.panicMode) synchronize()
EndDeclaration ==
  /\ status = "parsing"
  /\ sc.at # "new"
  /\ IF sc.panicMode
     THEN Parsing(synchronizeTokens(ParserOf(sc, err)), "synchronize")
     ELSE Parsing(ParserOf(sc, err), "declaration")

NextParse == ParseAdvance \/ ReportError \/ EndDeclaration

SpecParse == InitParse /\ [][NextParse]_vars

(***************************************************************************)
(* A Table by itself: set, get and delete called in any order on a new     *)
(* Table, with strings of the pool for keys.  map is the finite map that   *)
(* the calls so far describe: map[key] is the value of the last set of the *)
(* key if no delete of the key has followed it, and Undef otherwise.       *)
(***************************************************************************)
\* the keys that have a slot of table t
Live(t) == {t.keys[i] : i \in 1..t.capacity} \ {0}

\* The keys: in a table of capacity 8 a and b hash to slot 4, outer to
\* slot 6, aa and by to slot 7 and c to slot 0, so that the probes collide
\* and the probe from slot 7 wraps around to slot 0.
TableKeys == <<"a", "b", "c", "outer", "aa", "by">>

\* The values set: null, as the pool sets, for every key, and for the keys
\* a and c a number as well, so that a set can change the value of a key.
TableValues(key) ==
  IF TableKeys[key] \in {"a", "c"} THEN {Nil, Num(1)} ELSE {Nil}

\* Bound of the model: the calls of delete that find their key
MaxDeletes == 2

InitTable ==
  /\ heap = SubSeq([k \in 1..Len(TableKeys) |->
                      LoxString(TableKeys[k], hashString(TableKeys[k]))],
                   1, Len(TableKeys))
  /\ pool = EmptyTable
  /\ globals = EmptyTable
  /\ stack = <<>>
  /\ frames = <<>>
  /\ frame = NoFrame
  /\ openUpvalues = 0
  /\ initString = 0
  /\ out = <<>>
  /\ err = <<>>
  /\ status = "table"
  /\ result = ""
  /\ runs = 0
  /\ comp = NoComp
  /\ sc = 0
  /\ tb = [table |-> EmptyTable, map |-> [k \in 1..Len(TableKeys) |-> Undef],
           got |-> Undef, deletes |-> 0, reused |-> FALSE, passed |-> FALSE]

TableCall(next) ==
  /\ status = "table"
  /\ tb' = next
  /\ UNCHANGED <<heap, pool, globals, stack, frames, frame, openUpvalues,
                 initString, status, result, out, err, runs, comp, sc>>

\* a tombstone: the key is deleted, the value is left
Tombstones(t) ==
  {i \in 0..(t.capacity - 1) : t.keys[i + 1] = 0 /\ t.values[i + 1] # Undef}

\* the slot of a key of t
SlotOf(t, key) == CHOOSE i \in 0..(t.capacity - 1) : t.keys[i + 1] = key

\* the slots that the probe for a key of t passes before it finds the key
ProbedBefore(h, t, key) ==
  LET home == BitAnd(h[key].hash, t.capacity - 1)
      length == (SlotOf(t, key) - home) % t.capacity
  IN {(home + j) % t.capacity : j \in 0..(length - 1)}

\* table.set(key, value); reused: some set so far has taken a tombstone
TableSet ==
  \E key \in 1..Len(TableKeys) : \E value \in TableValues(key) :
    Let(set(heap, tb.table, key, value), LAMBDA r :
      TableCall([tb EXCEPT
                   !.table = r.table,
                   !.map[key] = value,
                   !.reused = @ \/ (/\ r.isNewKey
                                    /\ r.table.capacity = tb.table.capacity
                                    /\ SlotOf(r.table, key) \in Tombstones(tb.table))]))

\* table.get(key); got: what the last get returned
TableGet ==
  \E key \in 1..Len(TableKeys) :
    TableCall([tb EXCEPT !.got = get(heap, tb.table, key)])

\* table.delete(key); passed: some delete so far has taken a key from a slot
\* that the probe for another key passes
TableDelete ==
  \E key \in 1..Len(TableKeys) :
    Let(delete(heap, tb.table, key), LAMBDA r :
      /\ r.deleted => tb.deletes < MaxDeletes
      /\ TableCall([tb EXCEPT
                      !.table = r.table,
                      !.map[key] = Undef,
                      !.deletes = IF r.deleted THEN @ + 1 ELSE @,
                      !.passed = @ \/ (/\ r.deleted
                                       /\ \E k \in Live(r.table) :
                                            SlotOf(tb.table, key)
                                              \in ProbedBefore(heap, r.table, k))]))

NextTable == TableSet \/ TableGet \/ TableDelete

SpecTable == InitTable /\ [][NextTable]_vars

(***************************************************************************)
(* Properties.                                                             *)
(***************************************************************************)
Range(s) == {s[i] : i \in 1..Len(s)}

\* The instruction at ip is SUBTRACT, MULTIPLY, DIVIDE, GREATER or LESS and
\* one of its two operands is not a number.
BinaryOperandError ==
  /\ status = "running"
  /\ Len(stack) < StackCap
  /\ ByteAt(M, 0) \in {OpCode.SUBTRACT, OpCode.MULTIPLY, OpCode.DIVIDE,
                       OpCode.GREATER, OpCode.LESS}
  /\ (~IsNum(peek(M, 0)) \/ ~IsNum(peek(M, 1)))

\* C1: when SUBTRACT, MULTIPLY, DIVIDE, GREATER or LESS is executed with an
\* operand that is not a number, the run stops at that instruction, nothing
\* more is printed, and interpret returns RUNTIME_ERROR.
C1_BinaryOpStops ==
  [][BinaryOperandError =>
       status' = "idle" /\ result' = "RUNTIME_ERROR" /\ out' = out]_vars

\* The instruction at ip is GET_PROPERTY, the receiver is an instance, and
\* its field table holds the name.
FieldPresent ==
  /\ Fetch(OpCode.GET_PROPERTY)
  /\ KindOf(heap, Top(stack)) = "instance"
  /\ get(heap, heap[Top(stack).v].fields, ConstantAt(M, 1).v) # Undef

\* C2: GET_PROPERTY on an instance whose field table contains the name
\* replaces the receiver on top of the stack with the stored value, whatever
\* the value (nil, false and 0 included), and the run goes on.
C2_FieldRead ==
  [][FieldPresent =>
       /\ status' = "running"
       /\ stack' = Append(Pop(stack),
                          get(heap, heap[Top(stack).v].fields,
                              ConstantAt(M, 1).v))]_vars

\* The instruction at ip is CALL and the callee is a native.
NativeCall ==
  Fetch(OpCode.CALL) /\ KindOf(heap, peek(M, ByteAt(M, 1))) = "native"

\* C3: a CALL of a native with argCount arguments leaves the stack argCount
\* shorter, with the native's result in the slot the callee had, and pushes
\* no frame.
C3_NativeCall ==
  [][NativeCall =>
       /\ Len(stack') = Len(stack) - ByteAt(M, 1)
       /\ IsNum(Top(stack'))
       /\ frames' = Advance(M, 2).frames]_vars

\* string() has read to the end of the input without meeting the closing
\* double quote.
UnterminatedAtEnd ==
  status = "scanning" /\ sc.at = "string" /\ done(sc.scanner)

\* C4: when the opening double quote of a string has no closing double
\* quote before the end of input, scanToken returns an ERROR token there
\* and the compilation has an error.
C4_UnterminatedString ==
  [][UnterminatedAtEnd =>
       sc'.at = "scanToken" /\ sc'.current.type = "ERROR" /\ sc'.hadError]_vars

Strings(h) == {i \in 1..Len(h) : h[i].k = "string"}

\* intern(s.chars) is s for every pooled string s, and no two string
\* objects have the same characters.
Interned ==
  /\ \A s \in Strings(heap) : intern(heap, pool, heap[s].chars).key = s
  /\ \A s, t \in Strings(heap) : heap[s].chars = heap[t].chars => s = t

\* The instruction at ip is EQUAL and both operands are strings.
EqualOnStrings ==
  /\ Fetch(OpCode.EQUAL)
  /\ KindOf(heap, peek(M, 0)) = "string"
  /\ KindOf(heap, peek(M, 1)) = "string"

\* C5: after any sequence of intern calls (by the compiler, defineNative
\* and concatenation, growth of the pool table included) intern(s.chars)
\* returns s for every pooled string s and equal characters mean the same
\* object; EQUAL on two strings is true exactly when their characters are
\* equal.
C5_Interning ==
  /\ []Interned
  /\ [][EqualOnStrings =>
          Top(stack') = Bool(heap[peek(M, 0).v].chars = heap[peek(M, 1).v].chars)]_vars

\* the pool table has grown, concatenation has made a string that the
\* compiler had interned, and EQUAL has compared the two
C5_Witness ==
  /\ pool.capacity > 8
  /\ out = <<"true", "false">>

\* the open-upvalue list from upvalue u on
RECURSIVE OpenList(_, _)
OpenList(h, u) == IF u = 0 THEN <<>> ELSE <<u>> \o OpenList(h, h[u].next)

\* C6: at every instruction boundary the open-upvalue list is strictly
\* descending in stack index, and captureUpvalue of the index of an open
\* upvalue returns that upvalue.
C6_OpenListDescending ==
  LET open == OpenList(heap, openUpvalues)
  IN /\ \A i \in 1..(Len(open) - 1) : heap[open[i]].index > heap[open[i + 1]].index
     /\ \A i \in 1..Len(open) :
          captureUpvalue(M, heap[open[i]].index).upvalue = open[i]

ClosureRefs(h) == {i \in 1..Len(h) : h[i].k = "closure"}

\* two upvalues are open and two closures share one of them
C6_Witness ==
  /\ Len(OpenList(heap, openUpvalues)) >= 2
  /\ \E c, d \in ClosureRefs(heap) :
       /\ c # d
       /\ \E u \in Range(heap[c].upvalues) \cap Range(heap[d].upvalues) :
            u \in Range(OpenList(heap, openUpvalues))

EndOfFunction ==
  /\ status = "compiling"
  /\ comp.todo # <<>>
  /\ Head(comp.todo).w \in {"endFunDeclaration", "endMethod"}

\* what the step emits after the CLOSURE instruction and its pairs: METHOD
\* and its operand for a method, DEFINE_GLOBAL and its operand for a
\* function declared at top level
AfterClosure ==
  IF Head(comp.todo).w = "endMethod" THEN 2
  ELSE IF comp.comps[Len(comp.comps) - 1].scopeDepth = 0 THEN 2
  ELSE 0

\* C8: every closure on the heap has as many upvalues as its function's
\* upvalueCount, and the compiler emits that many (isLocal, index) pairs
\* after the CLOSURE instruction of the function.
C8_UpvalueCounts ==
  /\ [](\A c \in ClosureRefs(heap) :
          Len(heap[c].upvalues) = heap[heap[c].func].upvalueCount)
  /\ [][EndOfFunction =>
          LET level == Len(comp.comps) - 1
              before == Len(comp.comps[level].func.code)
              code == comp'.comps[level].func.code
              function == heap'[comp.comps[level + 1].funcRef]
          IN /\ code[before + 1] = OpCode.CLOSURE
             /\ comp'.comps[level].func.constants[code[before + 2] + 1]
                  = Obj(comp.comps[level + 1].funcRef)
             /\ Len(code) = before + 2 + 2 * function.upvalueCount + AfterClosure
             /\ \A i \in 0..(function.upvalueCount - 1) :
                  code[before + 3 + 2 * i] \in {0, 1}]_vars

\* a closure with two upvalues has been made
C8_Witness ==
  \E c \in ClosureRefs(heap) :
    /\ heap[heap[c].func].upvalueCount = 2
    /\ Len(heap[c].upvalues) = 2
    /\ heap[heap[c].upvalues[2]].k = "upvalue"

\* the closure that a callee hands to VM.call: 0 where there is none
CalledClosure(callee) ==
  CASE KindOf(heap, callee) = "closure" -> callee.v
    [] KindOf(heap, callee) = "bound" -> heap[callee.v].method
    [] KindOf(heap, callee) = "class" ->
         (IF Truthy(get(heap, heap[callee.v].methods, initString))
          THEN get(heap, heap[callee.v].methods, initString).v ELSE 0)
    [] OTHER -> 0

\* the method of a class that invokeFromClass hands to VM.call
CalledMethod(klass, name) ==
  IF Truthy(get(heap, heap[klass].methods, name))
  THEN get(heap, heap[klass].methods, name).v ELSE 0

\* The call instruction at ip: how long it is, its argCount, and the
\* closure it enters VM.call with (0 where it does not get there).
Called ==
  CASE ByteAt(M, 0) = OpCode.CALL ->
         [size |-> 2, argCount |-> ByteAt(M, 1), popped |-> 0,
          closure |-> CalledClosure(peek(M, ByteAt(M, 1)))]
    [] ByteAt(M, 0) = OpCode.INVOKE ->
         [size |-> 3, argCount |-> ByteAt(M, 2), popped |-> 0,
          closure |->
            IF KindOf(heap, peek(M, ByteAt(M, 2))) # "instance" THEN 0
            ELSE IF Truthy(get(heap, heap[peek(M, ByteAt(M, 2)).v].fields,
                               ConstantAt(M, 1).v))
            THEN CalledClosure(get(heap, heap[peek(M, ByteAt(M, 2)).v].fields,
                                   ConstantAt(M, 1).v))
            ELSE CalledMethod(heap[peek(M, ByteAt(M, 2)).v].klass,
                              ConstantAt(M, 1).v)]
    [] ByteAt(M, 0) = OpCode.SUPER_INVOKE ->
         [size |-> 3, argCount |-> ByteAt(M, 2), popped |-> 1,
          closure |-> CalledMethod(Top(stack).v, ConstantAt(M, 1).v)]
    [] OTHER -> [size |-> 0, argCount |-> 0, popped |-> 0, closure |-> 0]

\* The instruction at ip is a call.
CallAttempted == status = "running" /\ Len(stack) < StackCap /\ Called.size > 0

\* The instruction at ip calls a closure with as many arguments as its arity.
ClosureCalled ==
  /\ CallAttempted
  /\ Called.closure # 0
  /\ Called.argCount = FuncOf(M, Called.closure).arity

\* the call fails with "Stack overflow." and no frame is pushed
Overflows ==
  /\ result' = "RUNTIME_ERROR"
  /\ status' = "idle"
  /\ Len(err') > Len(err)
  /\ err'[Len(err) + 1] = "Stack overflow."
  /\ frames' = <<>>

\* the call pushes one frame, with ip = 0 and
\* offset = stack.length - argCount - 1
PushesFrame ==
  /\ status' = "running"
  /\ frames' = Append(Advance(M, Called.size).frames,
                      CallFrame(Called.closure, 0,
                                Len(stack') - Called.argCount - 1))
  /\ frame' = frames'[Len(frames')]

C10_StackBounded == Len(stack) < StackCap

(***************************************************************************)
(* Jumps.                                                                  *)
(***************************************************************************)
\* The operand bytes that the case of run for the opcode at position ip
\* reads (readByte, readShort, readConstant, readString, and the pairs that
\* CLOSURE reads for the function's upvalueCount).
OperandBytes(h, func, ip) ==
  LET op == func.code[ip + 1]
  IN IF op \in {OpCode.JUMP, OpCode.JUMP_IF_FALSE, OpCode.LOOP, OpCode.INVOKE,
                OpCode.SUPER_INVOKE}
     THEN 2
     ELSE IF op = OpCode.CLOSURE
     THEN 1 + 2 * h[func.constants[func.code[ip + 2] + 1].v].upvalueCount
     ELSE IF op \in {OpCode.CONSTANT, OpCode.GET_LOCAL, OpCode.SET_LOCAL,
                     OpCode.GET_GLOBAL, OpCode.DEFINE_GLOBAL, OpCode.SET_GLOBAL,
                     OpCode.GET_UPVALUE, OpCode.SET_UPVALUE,
                     OpCode.GET_PROPERTY, OpCode.SET_PROPERTY,
                     OpCode.GET_SUPER, OpCode.CALL, OpCode.CLASS, OpCode.METHOD}
     THEN 1
     ELSE 0

\* The positions of the opcodes of a function's code from position ip on,
\* ip being one of them.
RECURSIVE InstructionsFrom(_, _, _)
InstructionsFrom(h, func, ip) ==
  IF ip >= Len(func.code) THEN {}
  ELSE {ip} \cup InstructionsFrom(h, func, ip + 1 + OperandBytes(h, func, ip))

Instructions(h, func) == InstructionsFrom(h, func, 0)

\* run is about to execute a jump
Jumping ==
  Fetch(OpCode.JUMP) \/ Fetch(OpCode.JUMP_IF_FALSE) \/ Fetch(OpCode.LOOP)

\* Where the jump whose operand is at code[at], code[at + 1] takes ip:
\* run has read both operand bytes when it adds or subtracts the offset.
ForwardTarget(code, at) == at + 2 + (code[at + 1] * 256 + code[at + 2])
BackwardTarget(code, at) == at + 2 - (code[at + 1] * 256 + code[at + 2])

\* the code of the function that is being compiled
CodeOf(c) == c.comps[Len(c.comps)].func.code

\* What the compile step that is about to be taken makes of the jumps it
\* patches and the loops it emits: the forward jump is to the instruction
\* that is emitted next after the patch, the LOOP to loopStart.
Patched ==
  LET item == Head(comp.todo)
      count == Len(CodeOf(comp))
      code == CodeOf(comp')
  IN CASE item.w = "else" ->
            /\ ForwardTarget(code, item.thenJump) = count + 3
            /\ code[count + 4] = OpCode.POP
       [] item.w = "endIf" -> ForwardTarget(code, item.elseJump) = Len(code)
       [] item.w = "endWhile" ->
            /\ BackwardTarget(code, count + 1) = item.loopStart
            /\ ForwardTarget(code, item.exitJump) = count + 3
            /\ code[count + 4] = OpCode.POP
       [] item.w = "endFor" ->
            /\ BackwardTarget(code, count + 1) = item.loopStart
            /\ item.exitJump # -1 =>
                 /\ ForwardTarget(code, item.exitJump) = count + 3
                 /\ code[count + 4] = OpCode.POP
       [] OTHER -> TRUE

\* C11: every JUMP, JUMP_IF_FALSE and LOOP that run executes leaves ip, in
\* the same chunk, at the position of an opcode; and every compile step that
\* patches a forward jump makes it land on the instruction emitted next
\* after the patch, every LOOP it emits land on loopStart.
C11_JumpsLand ==
  /\ [][Jumping => /\ status' = "running"
                   /\ frame'.closure = frame.closure
                   /\ frame'.ip \in Instructions(heap, Chunk(M))]_vars
  /\ [][status = "compiling" /\ comp.todo # <<>> => Patched]_vars

\* the three loops of Loops have run, the last left by a return
C11_Witness ==
  status = "idle" /\ result = "OK" /\ out = <<"0", "1", "1">>

(***************************************************************************)
(* Globals.                                                                *)
(***************************************************************************)
\* run is about to execute SET_GLOBAL on a name that is not defined
SetOfUndefined ==
  Fetch(OpCode.SET_GLOBAL) /\ ConstantAt(M, 1).v \notin Live(globals)

\* C12: a SET_GLOBAL on a name that is not defined ends the run with a
\* runtime error, after which that name is still undefined and every
\* other name reads from globals the value it read before.
C12_SetGlobalUndefined ==
  [][SetOfUndefined =>
       /\ status' = "idle"
       /\ result' = "RUNTIME_ERROR"
       /\ get(heap', globals', ConstantAt(M, 1).v) = Undef
       /\ \A k \in Strings(heap) \ {ConstantAt(M, 1).v} :
            get(heap', globals', k) = get(heap, globals, k)]_vars

(***************************************************************************)
(* Table.                                                                  *)
(***************************************************************************)
\* the slots that hold a key
SlotsOf(t, key) == {i \in 0..(t.capacity - 1) : t.keys[i + 1] = key}

Used(t) ==
  {i \in 0..(t.capacity - 1) : t.keys[i + 1] # 0 \/ t.values[i + 1] # Undef}

\* the capacities that set asks of grow: 8, 16, 32, ...
RECURSIVE IsCapacity(_)
IsCapacity(n) == n = 8 \/ (n > 8 /\ n % 2 = 0 /\ IsCapacity(n \div 2))

\* what a grow of the table, as set calls it, would make of it
Grown(t) == grow(heap, t, IF t.capacity < 8 THEN 8 ELSE t.capacity * 2)

\* C14: the table's count is the number of slots in use (keys and
\* tombstones) and is at most 0.75 times the capacity, after every set and
\* so in every state; the capacity is 0 or a power of two from 8 on; and a
\* grow of the table keeps exactly its keys, each with its value, leaves
\* no tombstone and makes the count the number of keys.
C14_LoadAndGrow ==
  /\ tb.table.count = Cardinality(Used(tb.table))
  /\ tb.table.count * MAX_LOAD_DEN <= tb.table.capacity * MAX_LOAD_NUM
  /\ tb.table.capacity = 0 \/ IsCapacity(tb.table.capacity)
  /\ Live(Grown(tb.table)) = Live(tb.table)
  /\ \A key \in Live(tb.table) :
       /\ get(heap, Grown(tb.table), key) = get(heap, tb.table, key)
       /\ Cardinality(SlotsOf(Grown(tb.table), key)) = 1
  /\ Tombstones(Grown(tb.table)) = {}
  /\ Grown(tb.table).count = Cardinality(Live(tb.table))
  /\ Grown(tb.table).capacity \in {8, 2 * tb.table.capacity}

\* a set has grown the table from 8 slots to 16 and dropped two tombstones
C14_Witness ==
  /\ status = "table"
  /\ tb.table.capacity = 16
  /\ tb.table.count = 4
  /\ tb.deletes = 2
  /\ Tombstones(tb.table) = {}

ReturnsRuntimeError ==
  status = "running" /\ status' = "idle" /\ result' = "RUNTIME_ERROR"

\* C16: when interpret returns RUNTIME_ERROR the value stack, the frame stack
\* and the list of open upvalues are empty, every global that could be read
\* before the failing step reads the same value after it, and every string
\* of the pool is still found in the pool.
C16_ErrorKeepsTables ==
  [][ReturnsRuntimeError =>
       /\ stack' = <<>>
       /\ frames' = <<>>
       /\ openUpvalues' = 0
       /\ \A k \in Strings(heap) :
            get(heap, globals, k) # Undef
              => get(heap', globals', k) = get(heap, globals, k)
       /\ \A k \in Live(pool) :
            findString(heap', pool', heap[k].chars, heap[k].hash) = k]_vars

\* a step of run with which interpret returns OK
ReturnsOk == status = "running" /\ status' = "idle" /\ result' = "OK"

\* C17: interpret returns OK with the RETURN of the script frame, and then
\* the value stack, the frame stack and the list of open upvalues are
\* empty.
C17_OkLeavesEmpty ==
  [][ReturnsOk =>
       /\ Fetch(OpCode.RETURN)
       /\ Len(frames) = 1
       /\ stack' = <<>>
       /\ frames' = <<>>
       /\ openUpvalues' = 0]_vars

\* a diagnostic is reported with this step
Diagnosed == Len(err') > Len(err)

\* C18: hadError, on which compile returns null, is true at a point of a
\* compilation exactly when a lexical or compile diagnostic has been
\* reported since the compilation began; and when compile returns,
\* interpret returns COMPILE_ERROR exactly when hadError is true, and then
\* at once, with the value stack, the frame stack, the globals and the
\* output as they were.
C18_NullIffDiagnostic ==
  /\ [][status' = "compiling"
         => comp'.hadError
              = ((status = "compiling" /\ comp.hadError) \/ Diagnosed)]_vars
  /\ [][status = "compiling" /\ status' # "compiling"
         => IF comp.hadError
            THEN /\ status' = "idle"
                 /\ result' = "COMPILE_ERROR"
                 /\ stack' = stack
                 /\ frames' = frames
                 /\ globals' = globals
                 /\ out' = out
            ELSE /\ status' = "running"
                 /\ result' # "COMPILE_ERROR"
                 /\ Len(frames') = 1]_vars

\* a compilation has reported a lexical diagnostic and, after the parser
\* synchronized, a compile diagnostic, and interpret returned COMPILE_ERROR
C18_Witness ==
  /\ status = "idle"
  /\ result = "COMPILE_ERROR"
  /\ runs = 1
  /\ err = <<"ErrorUnexpected character @",
             "Error: Can't return from top-level code.">>

\* the functions on the heap
Functions(h) == {f \in 1..Len(h) : h[f].k = "function"}

\* the last byte of the function's code is a RETURN opcode (not an operand)
EndsWithReturn(h, f) ==
  /\ Len(h[f].code) > 0
  /\ h[f].code[Len(h[f].code)] = OpCode.RETURN
  /\ (Len(h[f].code) - 1) \in Instructions(h, h[f])

\* C19: when compile has returned, the chunk of every function it made,
\* the script's and the nested ones, ends with RETURN; the function that
\* interpret then runs has arity 0 and no name; and the instruction that
\* run is about to read is always within the code of the frame's chunk.
C19_EndsWithReturn ==
  /\ [](status \in {"running", "idle"}
          => \A f \in Functions(heap) : EndsWithReturn(heap, f))
  /\ [](status = "running"
          => /\ frame.ip < Len(Chunk(M).code)
             /\ frame.ip \in Instructions(heap, Chunk(M)))
  /\ [][status = "compiling" /\ status' = "running"
         => /\ FuncOf(M', frame'.closure).arity = 0
            /\ FuncOf(M', frame'.closure).name = 0
            /\ EndsWithReturn(heap', heap'[frame'.closure].func)]_vars

\* a script with functions, methods and an initializer has run to its end
C19_Witness ==
  /\ status = "idle"
  /\ result = "OK"
  /\ runs = 1
  /\ \E f \in Functions(heap) :
       heap[f].name # 0 /\ heap[heap[f].name].chars = "init"
  /\ \E f \in Functions(heap) : heap[f].arity > 0

\* The operand bytes of the byte at position ip, taken for an opcode, also
\* where ip is the position of an operand.
Width(h, func, ip) ==
  IF /\ func.code[ip + 1] = OpCode.CLOSURE
     /\ ~(/\ ip + 2 <= Len(func.code)
           /\ func.code[ip + 2] < Len(func.constants)
           /\ func.constants[func.code[ip + 2] + 1].t = "obj"
           /\ h[func.constants[func.code[ip + 2] + 1].v].k = "function")
  THEN 1
  ELSE OperandBytes(h, func, ip)

\* next[ip + 1] is the position after the instruction at ip, the length of
\* the code for the last instruction and for the length itself
NextPosition(h, func) ==
  LET n == Len(func.code)
  IN SubSeq([p \in 1..(n + 1) |->
               IF p > n \/ p + Width(h, func, p - 1) > n THEN n
               ELSE p + Width(h, func, p - 1)], 1, n + 1)

\* the positions reached from those of S by steps of next, next being
\* doubled each time round
RECURSIVE ReachedFrom(_, _)
ReachedFrom(S, next) ==
  LET T == S \cup {next[p + 1] : p \in S}
  IN IF T = S THEN S
     ELSE ReachedFrom(T, SubSeq([p \in 1..Len(next) |-> next[next[p] + 1]],
                                1, Len(next)))

\* The positions of the opcodes of a function's code, as Instructions, for
\* code of any length.
Decoded(h, func) == ReachedFrom({0}, NextPosition(h, func)) \ {Len(func.code)}

\* the opcodes whose first operand is the index of a constant
ConstantOps ==
  {OpCode.CONSTANT, OpCode.GET_GLOBAL, OpCode.DEFINE_GLOBAL, OpCode.SET_GLOBAL,
   OpCode.GET_PROPERTY, OpCode.SET_PROPERTY, OpCode.GET_SUPER, OpCode.CLASS,
   OpCode.METHOD, OpCode.CLOSURE, OpCode.INVOKE, OpCode.SUPER_INVOKE}

\* the opcodes whose operand is a slot of the frame or of the upvalues
SlotOps ==
  {OpCode.GET_LOCAL, OpCode.SET_LOCAL, OpCode.GET_UPVALUE, OpCode.SET_UPVALUE}

\* the operands of the instruction at ip of function f are within range
OperandsInRange(h, f, ip) ==
  LET code == h[f].code
      op == code[ip + 1]
  IN /\ op \in ConstantOps
          => code[ip + 2] \in 0..255 /\ code[ip + 2] < Len(h[f].constants)
     /\ op \in SlotOps => code[ip + 2] \in 0..255
     /\ op \in {OpCode.GET_UPVALUE, OpCode.SET_UPVALUE}
          => code[ip + 2] < h[f].upvalueCount
     /\ op = OpCode.CLOSURE
          => \A k \in 1..(2 * h[h[f].constants[code[ip + 2] + 1].v].upvalueCount) :
               code[ip + 2 + k] \in 0..255

\* C20: when compile has returned a function, every constant operand in
\* the code of the functions it made is below 256 and below the number of
\* constants of the chunk, and every local slot, upvalue slot and capture
\* index is below 256; and during a compilation no function has more than
\* 256 locals or upvalues, a constant after the 256th comes with a
\* diagnostic, and one constant, local or upvalue more in a function that
\* has 256 is refused with a diagnostic.
C20_OperandsBelow256 ==
  /\ status = "running"
       => \A f \in Functions(heap) :
            /\ heap[f].upvalueCount <= 256
            /\ \A ip \in Decoded(heap, heap[f]) : OperandsInRange(heap, f, ip)
  /\ status = "compiling"
       => \A level \in 1..Len(comp.comps) :
            LET c == comp.comps[level]
            IN /\ Len(c.locals) <= 256
               /\ c.func.upvalueCount <= 256
               /\ Len(c.func.constants) > 256 => comp.hadError
  /\ status = "compiling" /\ Len(Cur(CS).func.constants) >= 256
       => LET r == makeConstant(CS, Nil)
          IN r.v = 0 /\ r.cs.hadError
  /\ status = "compiling" /\ Len(Cur(CS).locals) = 256
       => LET r == addLocal(CS, "x")
          IN r.hadError /\ Cur(r).locals = Cur(CS).locals
  /\ status = "compiling" /\ Cur(CS).func.upvalueCount = 256
       => LET r == addUpvalue(CS, Len(comp.comps), 256, TRUE)
          IN r.v = 0 /\ r.cs.hadError /\ Cur(r.cs).func.upvalueCount = 256

\* the 257th upvalue of a function has been refused: interpret returned
\* COMPILE_ERROR with the diagnostic
C20_Witness ==
  /\ status = "idle"
  /\ result = "COMPILE_ERROR"
  /\ err = <<"Error: Too many closure variables in function.">>

\* a step of the parser in which synchronize() runs
SynchronizeStep == sc.panicMode /\ sc'.at = "synchronize"

\* where synchronize stops: after a semicolon, before a statement, at EOF
RecoveryPoint(p) ==
  \/ p.current.type = "EOF"
  \/ p.previous.type = "SEMICOLON"
  \/ p.current.type \in StatementStarts

\* the step logs one message, after the ones logged before
LogsOne == Len(err') = Len(err) + 1 /\ SubSeq(err', 1, Len(err)) = err

\* the log lines of Parser.advance for the ERROR tokens of the scanner
ScannerErrors ==
  {"[line 1, column " \o ToString(c) \o "] ErrorUnexpected character @" :
     c \in 1..(6 * (MaxWords + 1))}

\* C21, as stated: from a diagnostic on the parser logs nothing until
\* synchronize() has returned, synchronize() returns with panicMode false
\* at a recovery point, and hadError is never cleared.
C21_SilentUntilSynchronized ==
  [][status = "parsing" =>
       /\ sc.panicMode => err' = err
       /\ SynchronizeStep => ~sc'.panicMode /\ RecoveryPoint(sc')
       /\ sc.hadError => sc'.hadError]_vars

\* C21, amended: in panic mode no call but synchronize() logs a message
\* or leaves panic mode; out of panic mode a call logs one message and
\* enters panic mode, or logs none; synchronize() clears panicMode before
\* it skips tokens, stops at the first recovery point, and logs nothing
\* unless it skips an ERROR token, which it reports with one message and
\* returns in panic mode; hadError is set exactly when a message has been
\* logged, and is never cleared.
C21_PanicEpisodes ==
  [][status = "parsing" =>
       /\ IF SynchronizeStep
          THEN /\ RecoveryPoint(sc')
               /\ RecoveryPoint(sc) => sc'.scanner = sc.scanner
               /\ IF sc'.panicMode
                  THEN LogsOne /\ err'[Len(err')] \in ScannerErrors
                  ELSE err' = err
          ELSE IF sc.panicMode
          THEN err' = err /\ sc'.panicMode
          ELSE IF sc'.panicMode THEN LogsOne ELSE err' = err
       /\ sc.hadError => sc'.hadError
       /\ sc'.hadError = (err' # <<>>)]_vars

\* synchronize() has skipped an ERROR token and stopped after a semicolon,
\* in panic mode, with the second message of the compilation logged
C21_Witness ==
  /\ status = "parsing"
  /\ sc.at = "synchronize"
  /\ sc.panicMode
  /\ sc.previous.type = "SEMICOLON"
  /\ Len(err) = 2
  /\ err[2] \in ScannerErrors

\* the upvalues of the heap, and the closed ones among them
Upvalues(h) == {u \in 1..Len(h) : h[u].k = "upvalue"}
ClosedUpvalues(h) == {u \in Upvalues(h) : h[u].index < 0}

\* the upvalue that the GET_UPVALUE or SET_UPVALUE at frame.ip names
Named == heap[frame.closure].upvalues[ByteAt(M, 1) + 1]

\* C22: a captured local outlives the call that declared it.  When its
\* upvalue is closed the upvalue takes the value of the stack slot; from
\* then on the upvalue stays closed, and its value changes only when a
\* closure that holds it executes SET_UPVALUE on it, to the value on top of
\* the stack; GET_UPVALUE pushes that value.  A closure made by CLOSURE
\* captures only upvalues of the running closure and open upvalues of
\* slots of the running call, so closures made by two calls of a function
\* share none of the locals of those calls.  (The counters of the source
\* Counter print 1, 2, 1, 3.)
C22_ClosedVariables ==
  /\ [][status = "running" =>
          /\ \A u \in Upvalues(heap) \ ClosedUpvalues(heap) :
               heap'[u].index < 0 => heap'[u].closed = At(stack, heap[u].index)
          /\ \A u \in ClosedUpvalues(heap) :
               /\ heap'[u].index < 0
               /\ heap'[u].closed # heap[u].closed =>
                    /\ Fetch(OpCode.SET_UPVALUE)
                    /\ u = Named
                    /\ heap'[u].closed = Top(stack)
          /\ Fetch(OpCode.SET_UPVALUE) /\ Named \in ClosedUpvalues(heap) =>
               heap'[Named].closed = Top(stack) /\ stack' = stack
          /\ Fetch(OpCode.GET_UPVALUE) /\ Named \in ClosedUpvalues(heap) =>
               stack' = Append(stack, heap[Named].closed)
          /\ Fetch(OpCode.CLOSURE) =>
               \A u \in Range(heap'[Len(heap) + 1].upvalues) :
                 \/ u \in Range(heap[frame.closure].upvalues)
                 \/ /\ heap'[u].index >= frame.offset
                    /\ heap'[u].index < Len(stack)]_vars
  /\ [](sc = "Counter" /\ result = "OK" => out = <<"1", "2", "1", "3">>)

\* the third call of the first counter has returned 3, after the second
\* counter returned 1
C22_Witness ==
  /\ sc = "Counter"
  /\ result = "OK"
  /\ out = <<"1", "2", "1", "3">>
  /\ Cardinality(ClosedUpvalues(heap)) = 2

\* names that the sources of the library refer to
ReferredNames == {"a", "c", "f", "i"}

\* the indexes of the locals called name in the compiler at level
LocalsNamed(cs, level, name) ==
  {j \in 0..(Len(cs.comps[level].locals) - 1) :
     cs.comps[level].locals[j + 1].name = name}

\* C23: a reference is resolved against the declarations compiled so far.
\* At every point of a compilation, a name that is a local of the function
\* being compiled resolves to the last such local; otherwise a name that is
\* a local of an enclosing function resolves to an upvalue; every other
\* name resolves to the global of that name.  A function that compile has
\* finished never changes, so a declaration that follows does not change
\* what it reads.  (The function f of the source ShowA prints the global,
\* 1, before and after a local a is declared in its enclosing block.)
C23_LexicalResolution ==
  /\ [](status = "compiling" =>
          \A name \in ReferredNames :
            LET r == resolve(CS, name)
                level == Len(comp.comps)
            IN IF LocalsNamed(CS, level, name) # {}
               THEN /\ r.getOp = OpCode.GET_LOCAL
                    /\ r.setOp = OpCode.SET_LOCAL
                    /\ r.arg = Max(LocalsNamed(CS, level, name))
               ELSE IF \E l \in 1..(level - 1) : LocalsNamed(CS, l, name) # {}
               THEN r.getOp = OpCode.GET_UPVALUE /\ r.setOp = OpCode.SET_UPVALUE
               ELSE /\ r.getOp = OpCode.GET_GLOBAL
                    /\ r.setOp = OpCode.SET_GLOBAL
                    /\ LET constant == Cur(r.cs).func.constants[r.arg + 1]
                       IN r.cs.heap[constant.v].chars = name)
  /\ [][\A f \in Functions(heap) : heap[f].code # <<>> => heap'[f] = heap[f]]_vars
  /\ [](sc = "ShowA" /\ result = "OK" => out = <<"1", "1">>)

\* f has printed the global a second time, after var a = 2 in the block
C23_Witness ==
  /\ sc = "ShowA"
  /\ out = <<"1", "1">>
  /\ status = "running"
  /\ At(stack, 2) = Num(2)

\* what the source Logic prints: each call of f prints its argument, and
\* each statement the value of its expression
LogicOutput ==
  <<"1", "1">> \o <<"nil", "2", "2">> \o <<"false", "nil", "nil">>
    \o <<"false", "false">> \o <<"nil", "nil">> \o <<"0", "2", "2">>

\* C24: and and or short-circuit and leave one value.  JUMP_IF_FALSE leaves
\* the stack as it is and jumps exactly when the value on top is nil or
\* false.  In the source Logic, f(a) or f(b) calls f(b) only when a is nil
\* or false and f(a) and f(b) calls f(b) only when a is neither, the value
\* printed is a where f(b) is not called and b where it is, and at each
\* print of the script the stack holds the script's slot and that value.
C24_ShortCircuit ==
  /\ [][Fetch(OpCode.JUMP_IF_FALSE) =>
          /\ stack' = stack
          /\ frame'.ip = frame.ip + 3
                         + (IF Top(stack) \in {Nil, Bool(FALSE)}
                            THEN ShortAt(M, 1) ELSE 0)]_vars
  /\ [](sc = "Logic" =>
          /\ \E n \in 0..Len(LogicOutput) : out = SubSeq(LogicOutput, 1, n)
          /\ result = "OK" => out = LogicOutput
          /\ Fetch(OpCode.PRINT) /\ Len(frames) = 1 => Len(stack) = 2)

\* the script prints the value of f(0) and f(2), after the calls f(0) and
\* f(2) and the short-circuits of the statements before it
C24_Witness ==
  /\ sc = "Logic"
  /\ Fetch(OpCode.PRINT)
  /\ Len(frames) = 1
  /\ stack[2] = Num(2)
  /\ Len(out) = Len(LogicOutput) - 1

\* what the source ForOrder prints: the initializer (0), then condition
\* (10, 11), body (b) and increment (21, 22) in turn up to the condition
\* that is false (12); the initializer (5) and the false condition of the
\* second loop; and the local declared before the loops (7)
ForOutput ==
  <<"0">> \o <<"10", "b", "21">> \o <<"11", "b", "22">> \o <<"12">>
    \o <<"5", "false">> \o <<"7">>

\* C25: a for loop runs its initializer once and then condition, body and
\* increment in that order, up to the first condition that is falsey, and
\* leaves the stack as deep as it found it.  In the source ForOrder every
\* clause prints: at every moment the output is a prefix of ForOutput, a run
\* that ends has printed all of it, and the print after the loops finds
\* the block's local a in its slot, under the one value it prints.
C25_ForOrder ==
  [](sc = "ForOrder" =>
       /\ \E n \in 0..Len(ForOutput) : out = SubSeq(ForOutput, 1, n)
       /\ status = "idle" /\ runs > 0 => result = "OK" /\ out = ForOutput
       /\ Fetch(OpCode.PRINT) /\ Len(frames) = 1 /\ Len(out) = Len(ForOutput) - 1
            => Len(stack) = 3 /\ stack[2] = Num(7) /\ stack[3] = Num(7))

\* both loops have ended and the script prints a
C25_Witness ==
  /\ sc = "ForOrder"
  /\ Fetch(OpCode.PRINT)
  /\ Len(frames) = 1
  /\ out = SubSeq(ForOutput, 1, Len(ForOutput) - 1)

\* the classes of the heap, the class called chars, the string chars
LoxClasses(h) == {c \in 1..Len(h) : h[c].k = "class"}
ClassNamed(h, chars) == CHOOSE c \in LoxClasses(h) : h[h[c].name].chars = chars
StringOf(h, chars) == CHOOSE s \in Strings(h) : h[s].chars = chars

\* klass.methods.get(key)
MethodOf(h, klass, key) == get(h, h[klass].methods, key)

\* C26: a subclass has the methods of its superclass, and its own in their
\* place.  INHERIT on a class copies every method of the superclass into
\* the subclass (which has none yet) and leaves the superclass alone; on a
\* value that is not a class it ends the run with the runtime error
\* "Superclass must be a class.".  METHOD sets the one method it names, in
\* the class under the closure, and no other instruction changes a class.
\* So in the source Inherit, B has A's m, its own n and h, and A has no h:
\* the calls print 1, 3, 4 and, on an instance of A, 2.
C26_Inherited ==
  /\ [][status = "running" =>
          IF Fetch(OpCode.INHERIT)
          THEN LET superclass == peek(M, 1)
                   subclass == peek(M, 0)
               IN IF KindOf(heap, superclass) = "class"
                  THEN /\ \A key \in Strings(heap) :
                            MethodOf(heap', subclass.v, key)
                              = IF MethodOf(heap, superclass.v, key) # Undef
                                THEN MethodOf(heap, superclass.v, key)
                                ELSE MethodOf(heap, subclass.v, key)
                       /\ heap'[superclass.v] = heap[superclass.v]
                       /\ status' = "running"
                  ELSE /\ result' = "RUNTIME_ERROR"
                       /\ err' = err \o <<"Superclass must be a class.">>
                                      \o trace(M)
                       /\ out' = out
          ELSE IF Fetch(OpCode.METHOD)
          THEN \A c \in LoxClasses(heap) : \A key \in Strings(heap) :
                 MethodOf(heap', c, key)
                   = IF c = peek(M, 1).v /\ key = ConstantAt(M, 1).v
                     THEN peek(M, 0)
                     ELSE MethodOf(heap, c, key)
          ELSE \A c \in LoxClasses(heap) : heap'[c] = heap[c]]_vars
  /\ [](sc = "Inherit" /\ status = "idle" /\ runs > 0 =>
          LET A == ClassNamed(heap, "A")
              B == ClassNamed(heap, "B")
              Method(c, chars) == MethodOf(heap, c, StringOf(heap, chars))
          IN /\ result = "OK"
             /\ out = <<"1", "3", "4", "2">>
             /\ Method(B, "m") = Method(A, "m") /\ Method(A, "m") # Undef
             /\ Method(B, "n") # Method(A, "n")
             /\ Undef \notin {Method(B, "n"), Method(A, "n"), Method(B, "h")}
             /\ Method(A, "h") = Undef)
  /\ [](sc = "NotAClass" /\ status = "idle" /\ runs > 0 =>
          result = "RUNTIME_ERROR" /\ out = <<>>)

\* the run of Inherit has ended: B has A's method m and two of its own
C26_Witness ==
  /\ sc = "Inherit"
  /\ result = "OK"
  /\ out = <<"1", "3", "4", "2">>
  /\ heap[ClassNamed(heap, "B")].methods.count = 3

\* the code that compilation cs1 has added to the function of cs
Emitted(cs, cs1) ==
  SubSeq(Cur(cs1).func.code, Len(Cur(cs).func.code) + 1, Len(Cur(cs1).func.code))

\* the running frame is a call of the init method of the class of the
\* instance in its slot 0
InitializerRuns ==
  /\ Len(frames) > 1
  /\ KindOf(heap, At(stack, frame.offset)) = "instance"
  /\ MethodOf(heap, heap[At(stack, frame.offset).v].klass, initString)
       = Obj(frame.closure)

\* C27: what a call yields when it ends without a return value.  At every
\* point of a compilation the end of the function and a bare return both
\* compile to GET_LOCAL 0, RETURN in an initializer and to NIL, RETURN in
\* every other function; and whenever the init method of an instance's
\* class returns, it returns that instance, to the slot of the callee.
\* (The source Returns prints nil for a function and a method that end
\* without a value, and the instance for A(), B(true) and A().init().)
C27_ImplicitReturn ==
  /\ [](status = "compiling" /\ comp.comps # <<>> =>
          LET code == IF Cur(CS).type = "INITIALIZER"
                      THEN <<OpCode.GET_LOCAL, 0, OpCode.RETURN>>
                      ELSE <<OpCode.NIL, OpCode.RETURN>>
          IN /\ Emitted(CS, emitReturn(CS)) = code
             /\ Emitted(CS, returnStatement(CS, SReturnNil)) = code)
  /\ [][Fetch(OpCode.RETURN) /\ InitializerRuns =>
          stack' = Append(SubSeq(stack, 1, frame.offset), At(stack, frame.offset))]_vars
  /\ [](sc = "Returns" /\ status = "idle" /\ runs > 0 =>
          /\ result = "OK"
          /\ out = <<"nil", "nil", "A instance", "nil", "B instance", "2",
                     "A instance">>)

\* the init of B is about to return from its bare return, with the
\* instance in the slot of the callee and again on top
C27_Witness ==
  /\ sc = "Returns"
  /\ Fetch(OpCode.RETURN)
  /\ InitializerRuns
  /\ At(stack, frame.offset + 1) = Bool(TRUE)
  /\ Top(stack) = At(stack, frame.offset)

\* the run ends with the runtime error of a call of argCount arguments to
\* a callee that expects arity: no frame is pushed, the frames are gone
ArityError(arity, argCount) ==
  /\ result' = "RUNTIME_ERROR"
  /\ status' = "idle"
  /\ Len(err') > Len(err)
  /\ err'[Len(err) + 1] = "Expected " \o ToString(arity) \o " arguments but got "
                            \o ToString(argCount) \o "."
  /\ frames' = <<>>
  /\ out' = out

\* the instruction at ip is a CALL of a class that has no init method
ClassWithoutInitCalled ==
  /\ Fetch(OpCode.CALL)
  /\ KindOf(heap, peek(M, ByteAt(M, 1))) = "class"
  /\ get(heap, heap[peek(M, ByteAt(M, 1)).v].methods, initString) = Undef

\* C28: a call instruction (CALL, INVOKE, SUPER_INVOKE) that reaches a
\* closure, a bound method, a method or the init method of a class, with an
\* argument count other than the arity of its function, ends the run with
\* the runtime error "Expected <arity> arguments but got <argCount>." and
\* pushes no frame; so does the call of a class without init with one or
\* more arguments ("Expected 0 arguments ...").  Each of the six sources
\* that make such a call ends with that error before its print.
C28_ArityChecked ==
  /\ [][CallAttempted /\ Called.closure # 0
           /\ Called.argCount # FuncOf(M, Called.closure).arity =>
          ArityError(FuncOf(M, Called.closure).arity, Called.argCount)]_vars
  /\ [][ClassWithoutInitCalled /\ ByteAt(M, 1) # 0 =>
          ArityError(0, ByteAt(M, 1))]_vars
  /\ [](sc \in AritySources /\ status = "idle" /\ runs > 0 =>
          /\ result = "RUNTIME_ERROR"
          /\ out = <<>>
          /\ err[1] = CASE sc \in {"ArityClosure", "ArityBound", "AritySuper",
                                    "ArityInit"} ->
                              "Expected 1 arguments but got 0."
                         [] sc = "ArityInvoke" -> "Expected 1 arguments but got 2."
                         [] sc = "ArityNoInit" -> "Expected 0 arguments but got 1.")

\* super.m() with no argument has failed on the method m(n) of A, called
\* from the method h of B
C28_Witness ==
  /\ sc = "AritySuper"
  /\ result = "RUNTIME_ERROR"
  /\ err[1] = "Expected 1 arguments but got 0."
  /\ Len(err) = 3
  /\ frames = <<>>

\* the locals of the current scope of the function being compiled
LocalsOfScope(cs) ==
  {j \in 1..Len(Cur(cs).locals) : Cur(cs).locals[j].depth = Cur(cs).scopeDepth}

AlreadyDeclared == "Already a variable with this name in this scope."

\* C29: at every point of a compilation inside a scope, declaring a name
\* is reported ("Already a variable with this name in this scope.")
\* exactly when a local of the current scope has the name, whatever the
\* enclosing scopes declare, and the new local is added after the others.
\* The source Redeclare does not compile; in the source Shadow the inner a
\* is read and assigned in the inner block, and after the block the outer
\* a has its own value: it prints 2, then 1.
C29_Redeclaration ==
  /\ [](status = "compiling" /\ comp.comps # <<>> /\ Cur(CS).scopeDepth > 0
          /\ ~comp.panicMode =>
          \A name \in ReferredNames :
            LET cs1 == declareVariable(CS, name)
            IN /\ Cur(cs1).locals = Append(Cur(CS).locals, Local(name, -1))
               /\ IF \E j \in LocalsOfScope(CS) : Cur(CS).locals[j].name = name
                  THEN cs1.hadError
                       /\ cs1.err = Append(err, "Error: " \o AlreadyDeclared)
                  ELSE cs1.hadError = comp.hadError /\ cs1.err = err)
  /\ [](sc = "Shadow" /\ status = "idle" /\ runs > 0 =>
          result = "OK" /\ out = <<"2", "1">>)
  /\ [](sc = "Redeclare" /\ status = "idle" /\ runs > 0 =>
          result = "COMPILE_ERROR" /\ out = <<>> /\ Len(err) = 1)

\* the inner block of Shadow has ended with 3 in its a, and the script
\* prints the a of the outer block
C29_Witness ==
  /\ sc = "Shadow"
  /\ Fetch(OpCode.PRINT)
  /\ out = <<"2">>
  /\ stack = <<stack[1], Num(1), Num(1)>>

OwnInitializerRead == "Can't read local variable in its own initializer."

\* C30: at every point of a compilation inside a scope, a name that is
\* declared there (and is not yet a local of that scope) cannot be read
\* before markInitialized: the new local has depth -1, and resolveLocal of
\* the name finds it, whatever the enclosing scopes declare, and reports
\* "Can't read local variable in its own initializer."; after
\* markInitialized the local has the current scope depth and resolveLocal
\* returns its index with no report.  The source OwnInitializer, whose
\* inner var a = a follows a var a of the enclosing block, does not
\* compile.
C30_OwnInitializer ==
  /\ [](status = "compiling" /\ comp.comps # <<>> /\ Cur(CS).scopeDepth > 0
          /\ ~comp.panicMode =>
          \A name \in ReferredNames :
            (\A j \in LocalsOfScope(CS) : Cur(CS).locals[j].name # name) =>
              LET level == Len(comp.comps)
                  declared == declareVariable(CS, name)
                  index == Len(Cur(CS).locals)
                  early == resolveLocal(declared, level, name)
                  marked == markInitialized(declared)
                  late == resolveLocal(marked, level, name)
              IN /\ Cur(declared).locals[index + 1].depth = -1
                 /\ early.v = index
                 /\ early.cs.hadError
                 /\ early.cs.err = Append(err, "Error: " \o OwnInitializerRead)
                 /\ Cur(marked).locals[index + 1].depth = Cur(CS).scopeDepth
                 /\ late.v = index
                 /\ late.cs = marked
                 /\ marked.err = err)
  /\ [](sc = "OwnInitializer" /\ status = "idle" /\ runs > 0 =>
          /\ result = "COMPILE_ERROR"
          /\ out = <<>>
          /\ err = <<"Error: " \o OwnInitializerRead>>)

\* compile has returned null for var a = a in the inner block
C30_Witness ==
  /\ sc = "OwnInitializer"
  /\ result = "COMPILE_ERROR"
  /\ err = <<"Error: " \o OwnInitializerRead>>

\* C31: the exit status in file mode.  With one argument the process
\* interprets the file once and, when interpret returns, exits with 65 for
\* COMPILE_ERROR, 70 for RUNTIME_ERROR and 0 for OK; with more arguments it
\* prints the usage line and exits with 64, and nothing has been compiled
\* or run.  (When interpret throws there is no result: the process ends
\* on the uncaught exception.)
C31_ExitStatus ==
  /\ [](status = "exited" =>
          IF Len(sc.args) > 1
          THEN /\ sc.exit = 64
               /\ runs = 0
               /\ heap = NewVM.heap /\ globals = NewVM.globals
               /\ stack = <<>> /\ out = <<>>
               /\ err = <<"Usage: main [path]\n">>
          ELSE /\ runs = 1
               /\ result = "COMPILE_ERROR" => sc.exit = 65
               /\ result = "RUNTIME_ERROR" => sc.exit = 70
               /\ result = "OK" => sc.exit = 0
               /\ result \in {"COMPILE_ERROR", "RUNTIME_ERROR", "OK", "THROWN"})
  /\ [](status # "exited" => sc.exit = Running)
  /\ [][status = "exited" => UNCHANGED vars]_vars

\* the file had a call with a wrong number of arguments: the process has
\* exited with 70
C31_Witness ==
  /\ status = "exited"
  /\ sc.args = <<"ArityClosure">>
  /\ result = "RUNTIME_ERROR"
  /\ sc.exit = 70

\* what a closure reads through the upvalue u
ReadUpvalue(h, values, u) ==
  IF h[u].index < 0 THEN h[u].closed ELSE At(values, h[u].index)

\* the closures that hold the upvalue u
Holders(h, u) == {c \in ClosureRefs(h) : u \in Range(h[c].upvalues)}

\* C32: closing an upvalue preserves its value.  An upvalue is closed only
\* by RETURN or CLOSE_UPVALUE, and what is read through it right after
\* the close is what its stack slot held right before; once closed, no
\* instruction other than a SET_UPVALUE on that upvalue changes it,
\* whatever is written to the stack; and after a SET_UPVALUE every closure
\* that holds the upvalue reads the value written.  (The source Shared,
\* where two closures share the closed variable and its former slot is
\* used again, prints 1, 2.)
C32_ClosePreserves ==
  /\ [][status = "running" =>
          /\ \A u \in Upvalues(heap) \ ClosedUpvalues(heap) :
               heap'[u].index < 0 =>
                 /\ Fetch(OpCode.RETURN) \/ Fetch(OpCode.CLOSE_UPVALUE)
                 /\ ReadUpvalue(heap', stack', u) = At(stack, heap[u].index)
          /\ \A u \in ClosedUpvalues(heap) :
               ~(Fetch(OpCode.SET_UPVALUE) /\ u = Named) => heap'[u] = heap[u]
          /\ Fetch(OpCode.SET_UPVALUE) =>
               \A c \in Holders(heap', Named) :
                 \A i \in 1..Len(heap'[c].upvalues) :
                   heap'[c].upvalues[i] = Named =>
                     ReadUpvalue(heap', stack', heap'[c].upvalues[i]) = Top(stack)]_vars
  /\ [](sc = "Shared" /\ result = "OK" => out = <<"1", "2">>)

\* the variable shared by two closures was closed at 1, has been set to 2
\* through one of them and printed through the other, while the slot it
\* had holds another value
C32_Witness ==
  /\ sc = "Shared"
  /\ status = "running"
  /\ out = <<"1", "2">>
  /\ \E u \in ClosedUpvalues(heap) :
       /\ Cardinality(Holders(heap, u)) = 2
       /\ heap[u].closed = Num(2)
       /\ Len(stack) > 2
       /\ At(stack, 2) # Num(2)
\* the RETURN at frame.ip returns from a called closure
ClosureReturns ==
  /\ status = "running"
  /\ Fetch(OpCode.RETURN)
  /\ Len(frames) > 1

\* C33: a RETURN of a called closure drops exactly the last frame and
\* cuts the value stack at the offset of that frame, whatever the callee
\* left above it, and pushes the result: the stack is then offset + 1
\* deep, the result on top, what was below the callee as it was; and the
\* offset of a frame is the depth of the stack before the callee was
\* pushed, the callee (or the receiver put in its place) being at the
\* offset and the arguments above it (SUPER_INVOKE first pops the
\* superclass it had on top).
C33_ReturnTruncates ==
  /\ [][ClosureReturns =>
          /\ status' = "running"
          /\ Len(frames') = Len(frames) - 1
          /\ \A i \in 1..Len(frames') : frames'[i] = frames[i]
          /\ frame' = frames[Len(frames) - 1]
          /\ Len(stack') = frame.offset + 1
          /\ Top(stack') = Top(stack)
          /\ \A i \in 1..frame.offset : stack'[i] = stack[i]]_vars
  /\ [][ClosureCalled /\ status' = "running" =>
          /\ Len(frames') = Len(frames) + 1
          /\ Len(stack') = Len(stack) - Called.popped
          /\ frame'.offset = Len(stack') - Called.argCount - 1
          /\ \A i \in 1..Len(stack') :
               i # frame'.offset + 1 => stack'[i] = stack[i]]_vars
  /\ [](status = "running" => frame.offset < Len(stack))

\* mk of the source Counter has returned its closure to the script, after
\* leaving its two locals on the stack: the script has the closure where
\* it had pushed mk
C33_Witness ==
  /\ sc = "Counter"
  /\ status = "running"
  /\ Len(frames) = 1
  /\ Len(stack) = 2
  /\ frame.ip >= 2
  /\ ByteAt(M, -2) = OpCode.CALL
  /\ KindOf(heap, Top(stack)) = "closure"
  /\ FuncName(M, Top(stack).v) = "inc()"
\* the slots of t that never held a key: neither a key nor a value
NeverUsed(t) == {i \in 0..(t.capacity - 1) : i \notin Used(t)}

\* how many steps the probe for a key takes from its home slot to slot i
Distance(h, t, key, i) == (i - BitAnd(h[key].hash, t.capacity - 1)) % t.capacity

\* the tombstones that the probe for a key that t does not hold meets
\* before it meets a never-used slot
TombstonesMet(h, t, key) ==
  {i \in Tombstones(t) :
     \A j \in NeverUsed(t) : Distance(h, t, key, i) < Distance(h, t, key, j)}

\* the never-used slot where the probe for a key that t does not hold ends
ProbeEnd(h, t, key) ==
  CHOOSE i \in NeverUsed(t) :
    \A j \in NeverUsed(t) : Distance(h, t, key, i) <= Distance(h, t, key, j)

FirstTombstone(h, t, key) ==
  CHOOSE i \in TombstonesMet(h, t, key) :
    \A j \in TombstonesMet(h, t, key) : Distance(h, t, key, i) <= Distance(h, t, key, j)

LastTombstone(h, t, key) ==
  CHOOSE i \in TombstonesMet(h, t, key) :
    \A j \in TombstonesMet(h, t, key) : Distance(h, t, key, i) >= Distance(h, t, key, j)

\* set on t begins with a grow
GrowsOnSet(t) == (t.count + 1) * MAX_LOAD_DEN > t.capacity * MAX_LOAD_NUM

\* the table in which set looks for the slot of the key
Probed(t) == IF GrowsOnSet(t) THEN Grown(t) ELSE t

\* C34 as stated: a set of a new key whose probe meets a tombstone before
\* a never-used slot puts the key in the first tombstone met and leaves
\* the count of used slots as it was; the count goes up by one exactly
\* when a set takes a never-used slot, and a delete or a set of a key
\* that the table holds leaves it as it was.
C34_FirstTombstone ==
  \A key \in 1..Len(TableKeys) :
    /\ delete(heap, tb.table, key).table.count = tb.table.count
    /\ \A value \in TableValues(key) :
         LET t == tb.table
             g == Probed(t)
             r == set(heap, t, key, value).table
         IN /\ tb.map[key] = Undef /\ TombstonesMet(heap, g, key) # {} =>
                 /\ SlotOf(r, key) = FirstTombstone(heap, g, key)
                 /\ r.count = t.count
            /\ r.count = t.count + 1 <=>
                 tb.map[key] = Undef /\ SlotOf(r, key) \in NeverUsed(g)
            /\ r.count # t.count + 1 => r.count = t.count
            /\ tb.map[key] # Undef => r.count = t.count

\* C34, amended: the key goes to the last tombstone met, and the count
\* that a set leaves is relative to the count after the grow with which
\* the set may begin, which is the number of keys of the table: the
\* count goes up by one from there exactly when a never-used slot is
\* taken, and stays there when a tombstone is taken or the key is in the
\* table.  A delete leaves the count as it was.
C34_LastTombstone ==
  \A key \in 1..Len(TableKeys) :
    /\ delete(heap, tb.table, key).table.count = tb.table.count
    /\ \A value \in TableValues(key) :
         LET t == tb.table
             g == Probed(t)
             r == set(heap, t, key, value).table
         IN /\ g.count = IF GrowsOnSet(t) THEN Cardinality(Live(t)) ELSE t.count
            /\ tb.map[key] = Undef /\ TombstonesMet(heap, g, key) # {} =>
                 /\ SlotOf(r, key) = LastTombstone(heap, g, key)
                 /\ r.count = g.count
            /\ r.count = g.count + 1 <=>
                 tb.map[key] = Undef /\ SlotOf(r, key) \in NeverUsed(g)
            /\ r.count # g.count + 1 => r.count = g.count
            /\ tb.map[key] # Undef => r.count = g.count

\* the table has two tombstones in a row that the probe for a key it does
\* not hold meets before a never-used slot, and a set of the key takes
\* the second of them
C34_Witness ==
  /\ status = "table"
  /\ tb.deletes = 2
  /\ \E key \in 1..Len(TableKeys) :
       /\ tb.map[key] = Undef
       /\ ~GrowsOnSet(tb.table)
       /\ Cardinality(TombstonesMet(heap, tb.table, key)) = 2
       /\ SlotOf(set(heap, tb.table, key, Nil).table, key)
            = LastTombstone(heap, tb.table, key)
\* the characters of the lexeme of the token scanned
Lexeme == sc.token.lexeme

\* C35: the token of a lexeme of letters, digits and underscores that does
\* not start with a digit has the type that KEYWORDS lists for the lexeme
\* if it lists it, and IDENTIFIER in every other case; the type is a
\* member of TokenType and the compiler's rule table has an entry for it.
C35_KeywordsOnly ==
  sc.at # "start" =>
    /\ Lexeme = Text(sc.scanner.source)
    /\ sc.token.type =
         IF Lexeme \in DOMAIN KEYWORDS THEN KEYWORDS[Lexeme] ELSE "IDENTIFIER"
    /\ sc.token.type \in TokenType
    /\ sc.token.type \in DOMAIN rules
    /\ sc.at # "TypeError"
\* the GET_PROPERTY case of run on a machine with the receiver on top:
\* the machine afterwards, and whether the run goes on
getProperty(m, name) ==
  LET instance == Top(m.stack)
  IN IF KindOf(m.heap, instance) # "instance"
     THEN [m |-> runtimeError(m, "Only instances have properties."), ok |-> FALSE]
     ELSE LET value == get(m.heap, m.heap[instance.v].fields, name)
          IN IF Truthy(value) THEN [m |-> Push(Drop(m), value), ok |-> TRUE]
             ELSE bindMethod(m, m.heap[instance.v].klass, name)

\* GET_PROPERTY name on the receiver, then the arguments, then CALL
\* argCount, from the machine m that has the receiver and the arguments on
\* its stack
Unfused(m, name, argCount, now) ==
  LET arguments == SubSeq(m.stack, Len(m.stack) - argCount + 1, Len(m.stack))
      r == getProperty([m EXCEPT !.stack = SubSeq(@, 1, Len(@) - argCount)], name)
  IN IF ~r.ok THEN r
     ELSE LET m1 == [r.m EXCEPT !.stack = @ \o arguments]
          IN callValue(m1, peek(m1, argCount), argCount, now)

\* C36: INVOKE name argCount does what GET_PROPERTY name followed by CALL
\* argCount does.  Wherever the run is at an INVOKE, both fail with a
\* runtime error (stack and frames reset) or both succeed, with the same
\* frames (the same closure at the same offset pushed, if any) and the
\* same value stack, the receiver or the field in slot 0 of the frame;
\* and getProperty is what the GET_PROPERTY case of run does.
C36_InvokeFused ==
  /\ [](status = "running" /\ Fetch(OpCode.INVOKE) =>
          \A now \in ClockValues :
            LET m == Advance(M, 3)
                fused == invoke(m, ConstantAt(M, 1).v, ByteAt(M, 2), now)
                unfused == Unfused(m, ConstantAt(M, 1).v, ByteAt(M, 2), now)
            IN /\ fused.ok = unfused.ok
               /\ fused.m.frames = unfused.m.frames
               /\ fused.m.stack = unfused.m.stack
               /\ fused.m.out = unfused.m.out
               /\ ~fused.ok => fused.m.frames = <<>> /\ fused.m.stack = <<>>)
  /\ [][Fetch(OpCode.GET_PROPERTY) =>
          LET r == getProperty(Advance(M, 2), ConstantAt(M, 1).v)
          IN /\ (status' = "running") = r.ok
             /\ stack' = r.m.stack
             /\ heap' = r.m.heap
             /\ frames' = r.m.frames]_vars

\* the run of InvokeField is in f, called by the INVOKE of the field m that
\* shadows the method m, with the closure in slot 0 and 3 as argument
C36_Witness ==
  /\ sc = "InvokeField"
  /\ status = "running"
  /\ Len(frames) = 2
  /\ frame.ip = 0
  /\ FuncName(M, frame.closure) = "f()"
  /\ heap[frames[1].closure].k = "closure"
  /\ FuncOf(M, frames[1].closure).code[frames[1].ip - 2] = OpCode.INVOKE
  /\ At(stack, frame.offset) = Obj(frame.closure)
  /\ Top(stack) = Num(3)
\* the objects that the values of a set are
ObjectsOf(values) == {x.v : x \in {y \in values : IsObj(y)}}

\* the values of the entries of a table
EntriesOf(t) ==
  {t.values[i] : i \in {j \in 1..t.capacity : t.keys[j] # 0}}

\* the objects that the object o of the heap h refers to
Referred(h, o) ==
  CASE h[o].k = "closure" -> {h[o].func} \cup Range(h[o].upvalues)
    [] h[o].k = "upvalue" ->
         IF h[o].index < 0 THEN ObjectsOf({h[o].closed}) ELSE {}
    [] h[o].k = "instance" -> {h[o].klass} \cup ObjectsOf(EntriesOf(h[o].fields))
    [] h[o].k = "class" -> ObjectsOf(EntriesOf(h[o].methods))
    [] h[o].k = "bound" -> {h[o].method} \cup ObjectsOf({h[o].receiver})
    [] h[o].k = "function" -> ObjectsOf(Range(h[o].constants))
    [] OTHER -> {}

\* the objects that the VM holds: on the stack, in a global, in a frame
Roots ==
  ObjectsOf(Range(stack)) \cup ObjectsOf(EntriesOf(globals))
    \cup ({frames[i].closure : i \in 1..Len(frames)} \ {0})

\* the objects reached from those of S
RECURSIVE Reachable(_)
Reachable(S) ==
  LET T == S \cup UNION {Referred(heap, o) : o \in S}
  IN IF T = S THEN S ELSE Reachable(T)

\* the upvalue is open, but not in the VM's list or not of a slot of the stack
Dangling(u) ==
  /\ heap[u].index >= 0
  /\ \/ u \notin Range(OpenList(heap, openUpvalues))
     \/ heap[u].index >= Len(stack)

\* C37: every upvalue reached from the stack, a global, a frame, a field
\* or another closure is closed, or is in the VM's list of open upvalues
\* and names a slot of the value stack, at every instruction and between
\* the calls of interpret, also after a runtime error.
C37_NoDanglingUpvalue ==
  \A u \in Reachable(Roots) \cap Upvalues(heap) : ~Dangling(u)
\* the tables of the state: the pool, the globals, the methods of every
\* class, the fields of every instance, and the table of SpecTable
AllTables ==
  {pool, globals}
    \cup {heap[o].methods : o \in {i \in 1..Len(heap) : heap[i].k = "class"}}
    \cup {heap[o].fields : o \in {i \in 1..Len(heap) : heap[i].k = "instance"}}
    \cup (IF status = "table" THEN {tb.table} ELSE {})

\* how many slots the loop of Table.#find reads for a key, counted up to
\* one more than there are slots
findSteps(keys, values, mask, key, index) ==
  LET RECURSIVE from(_, _)
      from(i, n) ==
        IF n > mask + 1 THEN n
        ELSE IF keys[i + 1] = 0 /\ values[i + 1] = Undef THEN n
        ELSE IF keys[i + 1] = key THEN n
        ELSE from((i + 1) % (mask + 1), n + 1)
  IN from(index, 1)

\* C38: probing ends.  Every table of capacity above 0 has a slot with
\* neither key nor value, so for every string Table.#find returns after
\* reading at most capacity slots, and findString returns a key or
\* undefined and does not reach its throw.
C38_ProbeEnds ==
  \A t \in AllTables :
    t.capacity > 0 =>
      /\ NeverUsed(t) # {}
      /\ t.count * MAX_LOAD_DEN <= t.capacity * MAX_LOAD_NUM
      /\ Cardinality(Used(t)) <= t.count
      /\ \A key \in Strings(heap) :
           /\ find(heap, t.keys, t.values, t.capacity - 1, key) # NoSlot
           /\ findSteps(t.keys, t.values, t.capacity - 1, key,
                        BitAnd(heap[key].hash, t.capacity - 1)) <= t.capacity
           /\ findString(heap, t, heap[key].chars, heap[key].hash) # NoSlot

\* the pool has grown to 16 slots and is as full as set lets it be: 12
\* slots in use, and a string whose probe passes more than one slot
C38_Witness ==
  /\ pool.capacity = 16
  /\ pool.count = 12
  /\ Cardinality(Used(pool)) = 12
  /\ \E key \in Live(pool) : ProbedBefore(heap, pool, key) # {}
\* the run is at a `super.m` or a `super.m(...)`
SuperAccess == Fetch(OpCode.GET_SUPER) \/ Fetch(OpCode.SUPER_INVOKE)

\* the receiver that the code of `super` pushed below the superclass and
\* the arguments
SuperReceiver ==
  IF Fetch(OpCode.SUPER_INVOKE) THEN peek(M, ByteAt(M, 2) + 1) ELSE peek(M, 1)

\* C39: super is bound to the superclass of the class in whose body it is
\* written.  SUPER_INVOKE calls, and GET_SUPER binds, the method that the
\* class on top of the stack has under the name, with the receiver that
\* is `this` of the running method; in t of class B < A of the source
\* Dispatch that class is A, whether the receiver is a B or a C (C < B,
\* with its own m), so that B().t() and C().t() both run A's m twice, on
\* the receiver.
C39_SuperStatic ==
  /\ [][Fetch(OpCode.SUPER_INVOKE) /\ status' = "running" =>
          /\ KindOf(heap, Top(stack)) = "class"
          /\ Obj(frame'.closure) = MethodOf(heap, Top(stack).v, ConstantAt(M, 1).v)
          /\ At(stack', frame'.offset) = SuperReceiver
          /\ Len(frames') = Len(frames) + 1]_vars
  /\ [][Fetch(OpCode.GET_SUPER) /\ status' = "running" =>
          /\ KindOf(heap, Top(stack)) = "class"
          /\ KindOf(heap', Top(stack')) = "bound"
          /\ Obj(heap'[Top(stack').v].method)
               = MethodOf(heap, Top(stack).v, ConstantAt(M, 1).v)
          /\ heap'[Top(stack').v].receiver = SuperReceiver
          /\ Len(stack') = Len(stack) - 1]_vars
  /\ [](sc = "Dispatch" /\ SuperAccess =>
          /\ FuncName(M, frame.closure) = "t()"
          /\ Top(stack) = Obj(ClassNamed(heap, "A"))
          /\ SuperReceiver = At(stack, frame.offset)
          /\ KindOf(heap, SuperReceiver) = "instance"
          /\ heap[SuperReceiver.v].klass
               \in {ClassNamed(heap, "B"), ClassNamed(heap, "C")})
  /\ [](sc = "Dispatch" /\ status = "idle" /\ runs > 0 =>
          /\ result = "OK"
          /\ out = <<"1", "true", "1", "true", "1", "true", "1", "true">>)

\* t, inherited by C from B, is at its super.m() on an instance of C, and
\* has A on top of the stack
C39_Witness ==
  /\ sc = "Dispatch"
  /\ Fetch(OpCode.SUPER_INVOKE)
  /\ heap[SuperReceiver.v].klass = ClassNamed(heap, "C")
  /\ Top(stack) = Obj(ClassNamed(heap, "A"))
  /\ MethodOf(heap, ClassNamed(heap, "C"), ConstantAt(M, 1).v)
       # MethodOf(heap, ClassNamed(heap, "A"), ConstantAt(M, 1).v)
  /\ out = <<"1", "true", "1", "true">>
====
